---- MODULE Spec2Model ----
(***************************************************************************)
(* Orchestration core of mage-ai: PipelineSchedule / PipelineRun /         *)
(* BlockRun records (mage_ai/orchestration/db/models.py), the trigger      *)
(* decision should_schedule, and the creation of a run with its block      *)
(* runs.  Every session.commit() of the source is one atomic step.         *)
(***************************************************************************)
EXTENDS Integers, Sequences, FiniteSets, TLC

VARIABLES
    now,        \* the wall clock read by datetime.now()
    sched,      \* pipeline_schedule table: id -> row
    runs,       \* pipeline_run table, in id order (id = index, autoincrement)
    blockRuns,  \* block_run table, in id order
    blocks,     \* the pipeline's blocks, in declaration order
    edges,      \* the pipeline's edges <<upstream uuid, downstream uuid>>
    proc,       \* per caller: position inside the polling loop / PipelineRun.create
    lastCall,   \* the query answered by the latest step, if that step was a query
    trueDays,   \* history: per schedule, the calendar days of polls answered True
    taken,      \* history: pipeline edits and status updates taken so far
    blockObj,   \* the Block objects of the pipeline: uuid -> fields
    store,      \* the variable store: location -> what was written there
    notified,   \* blocks handed to pipeline.update_block, in call order
    execLog,    \* history: the calls of Block.execute, with the run each was for
    puts        \* history: the writes to the store, their number and the latest per location

vars == <<now, sched, runs, blockRuns, blocks, edges, proc, lastCall, trueDays, taken,
          blockObj, store, notified, execLog, puts>>

\* the state of block execution: Block objects and the variable store
execVars == <<blockObj, store, notified, execLog, puts>>

-----------------------------------------------------------------------------
(* Bounds of the model *)

\* number of consecutive days the clock runs through
NumDays == 3
\* rows the pipeline_run table may hold
MaxRuns == 2
\* runs an API caller may create directly, besides those of the polling loops
MaxManual == 1
\* pipeline edits and status updates, together, in one behaviour
MaxOps == 2
\* concurrent callers (polling loops, API requests)
NumProcs == 2
\* proleptic ordinal of the first day of the clock: 2022-01-30, a Sunday
FirstDay == 738185

-----------------------------------------------------------------------------
(* Optional values: Python's None and a present value *)

None == <<>>
Some(x) == <<x>>
Get(o) == o[1]

-----------------------------------------------------------------------------
(* datetime: the calendar arithmetic behind replace(), weekday(), timedelta *)

Years == 2021 .. 2023

DateTime(y, mo, d, h, mi, s, us) ==
    [year |-> y, month |-> mo, day |-> d, hour |-> h, minute |-> mi,
     second |-> s, microsecond |-> us]

IsLeap(y) == (y % 4 = 0) /\ ((y % 100 # 0) \/ (y % 400 = 0))

DaysInMonth(y, m) ==
    IF m = 2 THEN (IF IsLeap(y) THEN 29 ELSE 28)
    ELSE IF m \in {4, 6, 9, 11} THEN 30 ELSE 31

DaysBeforeYear(y) ==
    LET p == y - 1 IN p * 365 + (p \div 4) - (p \div 100) + (p \div 400)

RECURSIVE DaysBeforeMonth(_, _)
DaysBeforeMonth(y, m) ==
    IF m = 1 THEN 0 ELSE DaysBeforeMonth(y, m - 1) + DaysInMonth(y, m - 1)

\* date.toordinal()
ToOrdinal(dt) == DaysBeforeYear(dt.year) + DaysBeforeMonth(dt.year, dt.month) + dt.day

\* date.weekday(): Monday is 0
Weekday(dt) == (ToOrdinal(dt) + 6) % 7

\* date.fromordinal(n), as <<year, month, day>>
FromOrdinal(n) ==
    LET y == CHOOSE yy \in Years :
                 DaysBeforeYear(yy) < n /\ n <= DaysBeforeYear(yy + 1)
        r == n - DaysBeforeYear(y)
        m == CHOOSE mm \in 1 .. 12 :
                 DaysBeforeMonth(y, mm) < r /\ r <= DaysBeforeMonth(y, mm) + DaysInMonth(y, mm)
    IN <<y, m, r - DaysBeforeMonth(y, m)>>

\* dt - timedelta(days=k): the date moves, the time of day stays
MinusDays(dt, k) ==
    LET ymd == FromOrdinal(ToOrdinal(dt) - k)
    IN [dt EXCEPT !.year = ymd[1], !.month = ymd[2], !.day = ymd[3]]

\* the tuple datetime comparison is lexicographic on
DtKey(dt) == <<dt.year, dt.month, dt.day, dt.hour, dt.minute, dt.second, dt.microsecond>>

RECURSIVE LexLess(_, _)
LexLess(a, b) ==
    IF a = <<>> THEN FALSE
    ELSE IF Head(a) # Head(b) THEN Head(a) < Head(b)
    ELSE LexLess(Tail(a), Tail(b))

\* a < b on datetimes
DtLess(a, b) == LexLess(DtKey(a), DtKey(b))

-----------------------------------------------------------------------------
(* The clock: the instants datetime.now() can return in the model *)

\* times of day sampled: midnight, inside hour 0, inside hour 13
TimesOfDay == << <<0, 0, 0, 0>>, <<0, 30, 15, 7>>, <<13, 0, 0, 999999>> >>

ClockAt(dayIdx, todIdx) ==
    LET ymd == FromOrdinal(FirstDay + dayIdx)
        t   == TimesOfDay[todIdx]
    IN DateTime(ymd[1], ymd[2], ymd[3], t[1], t[2], t[3], t[4])

ClockTimes == { ClockAt(d, t) : d \in 0 .. NumDays - 1, t \in 1 .. Len(TimesOfDay) }

\* the next instant after t, if the clock has one
NextTimes(t) ==
    LET later == { u \in ClockTimes : DtLess(t, u) }
    IN { u \in later : \A w \in later : ~DtLess(w, u) }

-----------------------------------------------------------------------------
(* Tables *)

SchedIds == {1, 2}
Procs == 1 .. NumProcs

Intervals == {"@once", "@daily", "@hourly", "@weekly", "@monthly", "@yearly"}
Recurring == {"@daily", "@hourly", "@weekly", "@monthly"}

ScheduleStatus == {"active", "inactive"}
PipelineRunStatus == {"initial", "running", "completed", "failed", "cancelled"}
BlockRunStatus == {"initial", "queued", "running", "completed", "failed", "cancelled"}

\* PipelineSchedule(): the column defaults
DefaultSchedule ==
    [pipeline_uuid |-> "p1", start_time |-> None,
     schedule_interval |-> "@once", status |-> "inactive"]

\* PipelineSchedule.pipeline_runs: the runs whose pipeline_schedule_id is self
pipeline_runs(self) == SelectSeq(runs, LAMBDA r : r.pipeline_schedule_id = self)

\* PipelineRun.block_runs: the block runs whose pipeline_run_id is rid
block_runs(rid) == SelectSeq(blockRuns, LAMBDA b : b.pipeline_run_id = rid)

\* shared.array.find: the first element satisfying the test, or None
find(Test(_), arr) ==
    LET hits == SelectSeq(arr, Test)
    IN IF hits = <<>> THEN None ELSE Some(Head(hits))

\* current_execution_date with '@daily' truncated to the hour only (hour=0 forgotten)
current_execution_date_dailyKeepsHour(self) ==
    LET interval == sched[self].schedule_interval IN
    IF interval = "@daily" THEN
        Some([now EXCEPT !.second = 0, !.microsecond = 0, !.minute = 0])
    ELSE IF interval = "@hourly" THEN
        Some([now EXCEPT !.second = 0, !.microsecond = 0, !.minute = 0])
    ELSE IF interval = "@weekly" THEN
        Some(MinusDays([now EXCEPT !.second = 0, !.microsecond = 0, !.minute = 0, !.hour = 0],
                       Weekday(now)))
    ELSE IF interval = "@monthly" THEN
        Some([now EXCEPT !.second = 0, !.microsecond = 0, !.minute = 0, !.hour = 0, !.day = 1])
    ELSE None

\* current_execution_date with '@weekly' shifted by isoweekday() (Monday is 1)
current_execution_date_isoWeekday(self) ==
    LET interval == sched[self].schedule_interval IN
    IF interval = "@daily" THEN
        Some([now EXCEPT !.second = 0, !.microsecond = 0, !.minute = 0, !.hour = 0])
    ELSE IF interval = "@hourly" THEN
        Some([now EXCEPT !.second = 0, !.microsecond = 0, !.minute = 0])
    ELSE IF interval = "@weekly" THEN
        Some(MinusDays([now EXCEPT !.second = 0, !.microsecond = 0, !.minute = 0, !.hour = 0],
                       Weekday(now) + 1))
    ELSE IF interval = "@monthly" THEN
        Some([now EXCEPT !.second = 0, !.microsecond = 0, !.minute = 0, !.hour = 0, !.day = 1])
    ELSE None

\* the truncation with the week counted forward, to the coming Sunday
execution_date_at_weekForward(interval, t) ==
    IF interval = "@daily" THEN
        Some([t EXCEPT !.second = 0, !.microsecond = 0, !.minute = 0, !.hour = 0])
    ELSE IF interval = "@hourly" THEN
        Some([t EXCEPT !.second = 0, !.microsecond = 0, !.minute = 0])
    ELSE IF interval = "@weekly" THEN
        Some(MinusDays([t EXCEPT !.second = 0, !.microsecond = 0, !.minute = 0, !.hour = 0],
                       0 - (6 - Weekday(t))))
    ELSE IF interval = "@monthly" THEN
        Some([t EXCEPT !.second = 0, !.microsecond = 0, !.minute = 0, !.hour = 0, !.day = 1])
    ELSE None

\* the body of PipelineSchedule.current_execution_date for a schedule interval,
\* with t the value datetime.now() returned
execution_date_at(interval, t) ==
    IF interval = "@daily" THEN
        Some([t EXCEPT !.second = 0, !.microsecond = 0, !.minute = 0, !.hour = 0])
    ELSE IF interval = "@hourly" THEN
        Some([t EXCEPT !.second = 0, !.microsecond = 0, !.minute = 0])
    ELSE IF interval = "@weekly" THEN
        Some(MinusDays([t EXCEPT !.second = 0, !.microsecond = 0, !.minute = 0, !.hour = 0],
                       Weekday(t)))
    ELSE IF interval = "@monthly" THEN
        Some([t EXCEPT !.second = 0, !.microsecond = 0, !.minute = 0, !.hour = 0, !.day = 1])
    ELSE None

\* PipelineSchedule.current_execution_date
current_execution_date(self) == execution_date_at(sched[self].schedule_interval, now)

\* should_schedule counting the runs of every schedule in the '@once' branch
should_schedule_onceAnyOwner(self) ==
    IF sched[self].status # "active" THEN FALSE
    ELSE IF sched[self].start_time # None /\ DtLess(now, Get(sched[self].start_time)) THEN FALSE
    ELSE IF sched[self].schedule_interval = "@once" THEN
        Len(runs) = 0
    ELSE
        LET ced == current_execution_date(self) IN
        IF ced = None THEN FALSE
        ELSE find(LAMBDA x : x.execution_date = ced, pipeline_runs(self)) = None

\* should_schedule searching the runs of every schedule for the execution date
should_schedule_findAnyOwner(self) ==
    IF sched[self].status # "active" THEN FALSE
    ELSE IF sched[self].start_time # None /\ DtLess(now, Get(sched[self].start_time)) THEN FALSE
    ELSE IF sched[self].schedule_interval = "@once" THEN
        Len(pipeline_runs(self)) = 0
    ELSE
        LET ced == current_execution_date(self) IN
        IF ced = None THEN FALSE
        ELSE find(LAMBDA x : x.execution_date = ced, runs) = None

\* should_schedule with the start_time comparison turned around
should_schedule_startReversed(self) ==
    IF sched[self].status # "active" THEN FALSE
    ELSE IF sched[self].start_time # None /\ DtLess(Get(sched[self].start_time), now) THEN FALSE
    ELSE IF sched[self].schedule_interval = "@once" THEN
        Len(pipeline_runs(self)) = 0
    ELSE
        LET ced == current_execution_date(self) IN
        IF ced = None THEN FALSE
        ELSE find(LAMBDA x : x.execution_date = ced, pipeline_runs(self)) = None

\* should_schedule that looks only at the runs that did not fail and were not
\* cancelled
should_schedule_skipsFailed(self) ==
    LET live == SelectSeq(pipeline_runs(self),
                          LAMBDA x : x.status \notin {"failed", "cancelled"}) IN
    IF sched[self].status # "active" THEN FALSE
    ELSE IF sched[self].start_time # None /\ DtLess(now, Get(sched[self].start_time)) THEN FALSE
    ELSE IF sched[self].schedule_interval = "@once" THEN
        Len(live) = 0
    ELSE
        LET ced == current_execution_date(self) IN
        IF ced = None THEN FALSE
        ELSE find(LAMBDA x : x.execution_date = ced, live) = None

\* PipelineSchedule.should_schedule
should_schedule(self) ==
    IF sched[self].status # "active" THEN FALSE
    ELSE IF sched[self].start_time # None /\ DtLess(now, Get(sched[self].start_time)) THEN FALSE
    ELSE IF sched[self].schedule_interval = "@once" THEN
        Len(pipeline_runs(self)) = 0
    ELSE
        LET ced == current_execution_date(self) IN
        IF ced = None THEN FALSE
        ELSE find(LAMBDA x : x.execution_date = ced, pipeline_runs(self)) = None

\* all_blocks_completed with any() in place of all()
all_blocks_completed_any(rid) ==
    \E k \in 1 .. Len(block_runs(rid)) : block_runs(rid)[k].status = "completed"

\* all_blocks_completed counting every terminal status as done
all_blocks_completed_terminal(rid) ==
    \A k \in 1 .. Len(block_runs(rid)) :
        block_runs(rid)[k].status \in {"completed", "failed", "cancelled"}

\* all_blocks_completed that wants at least one block run
all_blocks_completed_nonEmpty(rid) ==
    /\ block_runs(rid) # << >>
    /\ \A k \in 1 .. Len(block_runs(rid)) : block_runs(rid)[k].status = "completed"

\* PipelineRun.all_blocks_completed
all_blocks_completed(rid) ==
    \A k \in 1 .. Len(block_runs(rid)) : block_runs(rid)[k].status = "completed"

-----------------------------------------------------------------------------
(* Strings, as sequences of characters, and PipelineRun.execution_partition *)

Digits == <<"0", "1", "2", "3", "4", "5", "6", "7", "8", "9">>

\* str(n) of an integer n >= 0
RECURSIVE Str(_)
Str(n) == IF n < 10 THEN <<Digits[n + 1]>> ELSE Str(n \div 10) \o <<Digits[(n % 10) + 1]>>

\* a strftime field: n in decimal, zero-padded to width w
Pad(n, w) ==
    IF Len(Str(n)) >= w THEN Str(n)
    ELSE [i \in 1 .. w - Len(Str(n)) |-> "0"] \o Str(n)

\* execution_date.strftime(format='%Y%m%dT%H%M%S')
strftime(dt) ==
    Pad(dt.year, 4) \o Pad(dt.month, 2) \o Pad(dt.day, 2) \o <<"T">>
        \o Pad(dt.hour, 2) \o Pad(dt.minute, 2) \o Pad(dt.second, 2)

\* execution_partition joining the parts without zero padding
execution_partition_noPad(rid) ==
    LET self == runs[rid] dt == Get(self.execution_date) IN
    IF self.execution_date = None THEN Str(self.pipeline_schedule_id)
    ELSE Str(self.pipeline_schedule_id) \o <<"/">>
            \o Str(dt.year) \o Str(dt.month) \o Str(dt.day) \o <<"T">>
            \o Str(dt.hour) \o Str(dt.minute) \o Str(dt.second)

\* PipelineRun.execution_partition
execution_partition(rid) ==
    LET self == runs[rid] IN
    IF self.execution_date = None THEN Str(self.pipeline_schedule_id)
    ELSE Str(self.pipeline_schedule_id) \o <<"/">> \o strftime(Get(self.execution_date))

-----------------------------------------------------------------------------
(* The pipeline: block registry and edges, and its execution order *)

BlockUuids == {"A", "B", "C"}

SeqToSet(q) == { q[k] : k \in 1 .. Len(q) }

\* upstream blocks of b that the pipeline still holds
Upstream(b) == { a \in SeqToSet(blocks) : <<a, b>> \in edges }

\* direct successors of the blocks S along edges E
Succ(E, S) == { b \in BlockUuids : \E a \in S : <<a, b>> \in E }

\* S with everything reachable from it along E
RECURSIVE Closure(_, _)
Closure(E, S) == IF Succ(E, S) \subseteq S THEN S ELSE Closure(E, S \cup Succ(E, S))

\* no block reaches itself
Acyclic(E) == \A a \in BlockUuids : a \notin Closure(E, Succ(E, {a}))

\* Pipeline.get_executable_blocks: topological order, ties by declaration order
RECURSIVE TopoOrder(_, _)
TopoOrder(rest, done) ==
    LET ready == SelectSeq(rest, LAMBDA b : Upstream(b) \subseteq SeqToSet(done))
    IN IF rest = <<>> \/ ready = <<>> THEN done
       ELSE TopoOrder(SelectSeq(rest, LAMBDA b : b # Head(ready)), Append(done, Head(ready)))

\* the blocks as declared, whatever their edges
get_executable_blocks_declared == blocks

get_executable_blocks == TopoOrder(blocks, <<>>)

-----------------------------------------------------------------------------
(* Python values handed between a block's code and the variable store *)

\* a pandas DataFrame: column labels and rows
DataFrame(cols, rows) == [kind |-> "DataFrame", columns |-> cols, items |-> rows]
\* any other (JSON-able) object
Obj(x) == [kind |-> "object", columns |-> <<>>, items |-> <<x>>]
\* Python's None as a value
NoneValue == [kind |-> "NoneType", columns |-> <<>>, items |-> <<>>]
\* a tuple of values
Tuple(vs) == [kind |-> "tuple", columns |-> <<>>, items |-> vs]

\* len(o): of a tuple its items, of a DataFrame its rows
PyLen(o) == Len(o.items)

\* iterating o: a tuple yields its items, a DataFrame its column labels
PyIter(o) ==
    IF o.kind = "DataFrame" THEN [i \in 1 .. Len(o.columns) |-> Obj(o.columns[i])]
    ELSE o.items

\* dict(zip(names, outputs)) as the sequence of its (name, value) pairs; names are
\* distinct, pairs stop at the shorter of the two
Zip(names, outputs) ==
    LET it == PyIter(outputs) IN
    [i \in 1 .. (IF Len(names) < Len(it) THEN Len(names) ELSE Len(it)) |->
        <<names[i], it[i]>>]

\* pd.DataFrame({'col1': [1, 2], 'col2': [5, 6]})
TestFrame == DataFrame(<<"col1", "col2">>, << <<"1", "5">>, <<"2", "6">> >>)

-----------------------------------------------------------------------------
(* Block (mage_ai/data_preparation/models/block.py) *)

BlockStatus == {"executed", "not_executed"}
BlockType == {"data_exporter", "data_loader", "scratchpad", "transformer"}

\* the class a block type maps to declares the output variables
output_variables(type) ==
    IF type \in {"data_loader", "transformer"} THEN <<"df">> ELSE <<>>

\* what the class's own execute_block returns: DataLoaderBlock and TransformerBlock
\* return (df), which is the DataFrame itself and no tuple; Block returns ()
execute_block(type) ==
    IF type \in {"data_loader", "transformer"} THEN TestFrame ELSE Tuple(<<>>)

\* Block.__init__
NewBlock(uuid, type, pipeline) ==
    [name |-> uuid, uuid |-> uuid, type |-> type, status |-> "not_executed",
     pipeline |-> pipeline, upstream_blocks |-> << >>, downstream_blocks |-> << >>]

\* the types of the pipeline's blocks: a loader, a transformer and an exporter
TypeOf == [b \in BlockUuids |->
             IF b = "A" THEN "data_loader"
             ELSE IF b = "B" THEN "transformer" ELSE "data_exporter"]

-----------------------------------------------------------------------------
(* The variable store (mage_ai/data_preparation/variable_manager.py) *)

RepoPath == "repo"
PipelineUuids == {"p1", "p2"}
VariableUuids == {"df", "df.v2", "df2"}
VariableType == {"dataframe", "dataframe_analysis"}

\* os.path.join(self.repo_path, 'pipelines', pipeline_uuid), as its components
pipeline_path(pipeline_uuid) == <<RepoPath, "pipelines", pipeline_uuid>>

\* Variable(uuid, pipeline_path, block_uuid, variable_type=...)
Variable(uuid, path, block_uuid, variable_type) ==
    [uuid |-> uuid, pipeline_path |-> path, block_uuid |-> block_uuid,
     variable_type |-> variable_type]

\* where a Variable lives: <pipeline path>/variables/<block_uuid>/<variable_uuid>
Location(variable) ==
    variable.pipeline_path \o <<"variables", variable.block_uuid, variable.uuid>>

\* the representation a value is stored in: columnar for tabular data, structured
\* text for the rest
Representation(variable, data) ==
    IF variable.variable_type = Some("dataframe") \/ data.kind = "DataFrame"
    THEN "columnar" ELSE "text"

\* Variable.write_data: the store st with data at the variable's location
write_data(st, variable, data) ==
    [k \in DOMAIN st \cup {Location(variable)} |->
        IF k = Location(variable)
        THEN [representation |-> Representation(variable, data), data |-> data]
        ELSE st[k]]

\* rows a sample of a tabular value keeps
SampleCount == 1

\* Variable.read_data: the value at the variable's location, or a bounded prefix of
\* a tabular value; NotFound where nothing was written
read_data(st, variable, sample) ==
    IF Location(variable) \notin DOMAIN st
    THEN [raised |-> "NotFoundError", value |-> NoneValue]
    ELSE LET d == st[Location(variable)].data IN
         [raised |-> "",
          value |-> IF sample /\ d.kind = "DataFrame" /\ Len(d.items) > SampleCount
                    THEN DataFrame(d.columns, SubSeq(d.items, 1, SampleCount))
                    ELSE d]

\* add_variable writing into an emptied store
add_variable_truncating(st, pipeline_uuid, block_uuid, variable_uuid, data, variable_type) ==
    LET vt == IF data.kind = "DataFrame" THEN Some("dataframe") ELSE variable_type
        variable == Variable(variable_uuid, pipeline_path(pipeline_uuid), block_uuid, vt)
    IN write_data(<< >>, variable, data)

\* add_variable leaving alone a variable that exists
add_variable_keepsFirst(st, pipeline_uuid, block_uuid, variable_uuid, data, variable_type) ==
    LET vt == IF data.kind = "DataFrame" THEN Some("dataframe") ELSE variable_type
        variable == Variable(variable_uuid, pipeline_path(pipeline_uuid), block_uuid, vt)
    IN IF Location(variable) \in DOMAIN st THEN st ELSE write_data(st, variable, data)

\* VariableManager.add_variable: the store after the call
add_variable(st, pipeline_uuid, block_uuid, variable_uuid, data, variable_type) ==
    LET vt == IF data.kind = "DataFrame" THEN Some("dataframe") ELSE variable_type
        variable == Variable(variable_uuid, pipeline_path(pipeline_uuid), block_uuid, vt)
    IN write_data(st, variable, data)

\* get_variable building the Variable with block and variable uuid exchanged
get_variable_swapped(st, pipeline_uuid, block_uuid, variable_uuid, variable_type, sample) ==
    LET variable == Variable(block_uuid, pipeline_path(pipeline_uuid), variable_uuid,
                             variable_type)
    IN read_data(st, variable, sample)

\* get_variable answering None where nothing was written
get_variable_default(st, pipeline_uuid, block_uuid, variable_uuid, variable_type, sample) ==
    LET variable == Variable(variable_uuid, pipeline_path(pipeline_uuid), block_uuid,
                             variable_type)
    IN IF Location(variable) \in DOMAIN st THEN read_data(st, variable, sample)
       ELSE [raised |-> "", value |-> NoneValue]

\* VariableManager.get_variable: what the call returns or raises
get_variable(st, pipeline_uuid, block_uuid, variable_uuid, variable_type, sample) ==
    LET variable == Variable(variable_uuid, pipeline_path(pipeline_uuid), block_uuid,
                             variable_type)
    IN read_data(st, variable, sample)

\* the location the spec's key (pipeline_uuid, block_uuid, variable_uuid) names
KeyLocation(key) == <<RepoPath, "pipelines", key[1], "variables", key[2], key[3]>>

\* the variable names in the order of Python's string comparison
NameOrder == <<"df", "df.v2", "df2">>

\* v.split('.'): the parts of a name between its dots
SplitDot(v) == IF v = "df.v2" THEN <<"df", "v2">> ELSE <<v>>

\* os.listdir of the variables directory of a pipeline: the blocks with a variable
ListBlockDirs(st, pipeline_uuid) ==
    { b \in BlockUuids : \E v \in VariableUuids :
          Location(Variable(v, pipeline_path(pipeline_uuid), b, None)) \in DOMAIN st }

\* os.listdir of a block's directory: one entry per variable written, named by the
\* variable, with or without an extension
ListVariables(st, pipeline_uuid, b) ==
    { v \in VariableUuids :
          Location(Variable(v, pipeline_path(pipeline_uuid), b, None)) \in DOMAIN st }

\* sorted([v.split('.')[0] for v in variables]), from position i of NameOrder on
RECURSIVE SortedFirstParts(_, _)
SortedFirstParts(variables, i) ==
    IF i > Len(NameOrder) THEN << >>
    ELSE LET n == Cardinality({ v \in variables : SplitDot(v)[1] = NameOrder[i] }) IN
         (IF n = 0 THEN << >> ELSE [k \in 1 .. n |-> NameOrder[i]])
            \o SortedFirstParts(variables, i + 1)

\* VariableManager.get_variables_by_pipeline
get_variables_by_pipeline(st, pipeline_uuid) ==
    IF ListBlockDirs(st, pipeline_uuid) = {} THEN << >>
    ELSE [b \in ListBlockDirs(st, pipeline_uuid) |->
            SortedFirstParts(ListVariables(st, pipeline_uuid, b), 1)]

\* nothing was written yet
NoPuts == [count |-> 0, last |-> << >>]

\* the history h after the writes ws, in order
RECURSIVE LogPuts(_, _)
LogPuts(h, ws) ==
    IF ws = << >> THEN h
    ELSE LogPuts([count |-> h.count + 1,
                  last |-> [k \in DOMAIN h.last \cup {ws[1].location} |->
                              IF k = ws[1].location
                              THEN [data |-> ws[1].data,
                                    variable_type |-> ws[1].variable_type,
                                    before |-> IF k \in DOMAIN h.last
                                               THEN h.last[k].data ELSE NoneValue]
                              ELSE h.last[k]]],
                 Tail(ws))

\* no block was executed and nothing is stored
NoExecution ==
    /\ blockObj = [b \in BlockUuids |-> NewBlock(b, TypeOf[b], Some("p1"))]
    /\ store = << >>
    /\ notified = << >>
    /\ execLog = {}
    /\ puts = NoPuts

-----------------------------------------------------------------------------
(* Callers *)

Idle == [pc |-> "idle", sid |-> 0, rid |-> 0, todo |-> <<>>, i |-> 0]

NoCall == [op |-> "none", arg |-> 0, ret |-> FALSE]

DateOf(dt) == <<dt.year, dt.month, dt.day>>

\* creations begun (should_schedule answered True) whose run row is not committed yet
Pending == { q \in Procs : proc[q].pc = "create" }

HasRoom == Len(runs) + Cardinality(Pending) < MaxRuns

\* runs created without a pipeline: the direct calls of the model
Manual == { k \in 1 .. Len(runs) : runs[k].pipeline_uuid = None }

Init ==
    /\ now = ClockAt(0, 1)
    /\ \E iv \in Intervals, st \in ScheduleStatus, t0 \in {None, Some(ClockAt(1, 3))} :
          sched = [s \in SchedIds |->
                     IF s = 1
                     THEN [DefaultSchedule EXCEPT !.schedule_interval = iv,
                                                  !.status = st, !.start_time = t0]
                     ELSE DefaultSchedule]
    /\ runs = <<>>
    /\ blockRuns = <<>>
    /\ blocks = <<>>
    /\ edges = {}
    /\ proc = [p \in Procs |-> Idle]
    /\ lastCall = NoCall
    /\ trueDays = [s \in SchedIds |-> {}]
    /\ taken = [edits |-> 0, updates |-> 0]
    /\ NoExecution

\* time passes
Tick ==
    /\ now' \in NextTimes(now)
    /\ lastCall' = NoCall
    /\ UNCHANGED <<execVars, sched, runs, blockRuns, blocks, edges, proc, trueDays, taken>>

\* a poll whose should_schedule switches the schedule off when it answers True
Poll_switchesOff(p, s) ==
    /\ proc[p].pc = "idle"
    /\ should_schedule(s) => HasRoom
    /\ lastCall' = [op |-> "should_schedule", arg |-> s, ret |-> should_schedule(s)]
    /\ IF should_schedule(s)
       THEN /\ proc' = [proc EXCEPT ![p] = [Idle EXCEPT !.pc = "create", !.sid = s]]
            /\ trueDays' = [trueDays EXCEPT ![s] = @ \cup {DateOf(now)}]
            /\ sched' = [sched EXCEPT ![s].status = "inactive"]
       ELSE UNCHANGED <<proc, trueDays, sched>>
    /\ UNCHANGED <<execVars, now, runs, blockRuns, blocks, edges, taken>>

\* the polling loop evaluates schedule s; on True it goes on to create a run
Poll(p, s) ==
    /\ proc[p].pc = "idle"
    /\ should_schedule(s) => HasRoom
    /\ lastCall' = [op |-> "should_schedule", arg |-> s, ret |-> should_schedule(s)]
    /\ IF should_schedule(s)
       THEN /\ proc' = [proc EXCEPT ![p] = [Idle EXCEPT !.pc = "create", !.sid = s]]
            /\ trueDays' = [trueDays EXCEPT ![s] = @ \cup {DateOf(now)}]
       ELSE UNCHANGED <<proc, trueDays>>
    /\ UNCHANGED <<execVars, now, sched, runs, blockRuns, blocks, edges, taken>>

\* a PipelineRun row as BaseModel.create inserts it: status takes its default
RunRow(id, sid, pu, date) ==
    [id |-> id, pipeline_schedule_id |-> sid, pipeline_uuid |-> pu,
     execution_date |-> date, status |-> "initial"]

NewRun(sid, pu, date) == RunRow(Len(runs) + 1, sid, pu, date)

\* PipelineRun.create up to the snapshot of the blocks: the row is committed, then
\* the executable blocks are read
PipelineRun_create(p, sid, pu, date) ==
    LET todo == IF pu = None THEN <<>> ELSE get_executable_blocks IN
    /\ runs' = Append(runs, NewRun(sid, pu, date))
    /\ proc' = [proc EXCEPT ![p] =
                  IF todo = <<>> THEN Idle
                  ELSE [pc |-> "blockruns", sid |-> sid, rid |-> Len(runs) + 1,
                        todo |-> todo, i |-> 0]]
    /\ lastCall' = NoCall
    /\ UNCHANGED <<execVars, now, sched, blockRuns, blocks, edges, trueDays, taken>>

\* the polling loop creates the run it decided on, with the execution date of the
\* schedule at that moment
ScheduleRun(p) ==
    /\ proc[p].pc = "create"
    /\ PipelineRun_create(p, proc[p].sid, Some(sched[proc[p].sid].pipeline_uuid),
                          current_execution_date(proc[p].sid))

\* execution dates an API caller passes
ManualDates == {None, current_execution_date(1)}

\* createRun(scheduleId, executionDate?) called directly
CreateRun(p, sid, pu, date) ==
    /\ proc[p].pc = "idle"
    /\ HasRoom
    /\ Cardinality(Manual) < MaxManual
    /\ PipelineRun_create(p, sid, pu, date)

\* BlockRun_create handing every row the first block of the snapshot
BlockRun_create_firstBlock(p) ==
    /\ proc[p].pc = "blockruns"
    /\ blockRuns' = Append(blockRuns,
                           [pipeline_run_id |-> proc[p].rid,
                            block_uuid |-> proc[p].todo[1],
                            status |-> "initial"])
    /\ proc' = [proc EXCEPT ![p] =
                  IF proc[p].i + 1 = Len(proc[p].todo) THEN Idle
                  ELSE [proc[p] EXCEPT !.i = @ + 1]]
    /\ lastCall' = NoCall
    /\ UNCHANGED <<execVars, now, sched, runs, blocks, edges, trueDays, taken>>

\* BlockRun_create passing the schedule's id where the run's id belongs
BlockRun_create_scheduleId(p) ==
    /\ proc[p].pc = "blockruns"
    /\ blockRuns' = Append(blockRuns,
                           [pipeline_run_id |-> proc[p].sid,
                            block_uuid |-> proc[p].todo[proc[p].i + 1],
                            status |-> "initial"])
    /\ proc' = [proc EXCEPT ![p] =
                  IF proc[p].i + 1 = Len(proc[p].todo) THEN Idle
                  ELSE [proc[p] EXCEPT !.i = @ + 1]]
    /\ lastCall' = NoCall
    /\ UNCHANGED <<execVars, now, sched, runs, blocks, edges, trueDays, taken>>

\* one iteration of the loop of PipelineRun.create: BlockRun.create and its commit
BlockRun_create(p) ==
    /\ proc[p].pc = "blockruns"
    /\ blockRuns' = Append(blockRuns,
                           [pipeline_run_id |-> proc[p].rid,
                            block_uuid |-> proc[p].todo[proc[p].i + 1],
                            status |-> "initial"])
    /\ proc' = [proc EXCEPT ![p] =
                  IF proc[p].i + 1 = Len(proc[p].todo) THEN Idle
                  ELSE [proc[p] EXCEPT !.i = @ + 1]]
    /\ lastCall' = NoCall
    /\ UNCHANGED <<execVars, now, sched, runs, blocks, edges, trueDays, taken>>

Next ==
    \/ Tick
    \/ \E p \in Procs, s \in SchedIds : Poll(p, s)
    \/ \E p \in Procs : ScheduleRun(p)
    \/ \E p \in Procs, sid \in SchedIds, d \in ManualDates :
          CreateRun(p, sid, None, d)

Spec == Init /\ [][Next]_vars

-----------------------------------------------------------------------------
(* Run creation over a pipeline that is being edited, and status updates *)

Linear == {<<"A", "B">>, <<"B", "C">>}

InitRun ==
    /\ now = ClockAt(0, 1)
    /\ sched = [s \in SchedIds |-> DefaultSchedule]
    /\ runs = <<>>
    /\ blockRuns = <<>>
    /\ \/ blocks = <<"A", "B", "C">> /\ edges = Linear
       \/ blocks = <<"B", "A">> /\ edges = {<<"A", "B">>}
    /\ proc = [p \in Procs |-> Idle]
    /\ lastCall = NoCall
    /\ trueDays = [s \in SchedIds |-> {}]
    /\ taken = [edits |-> 0, updates |-> 0]
    /\ NoExecution

HasOps == taken.edits + taken.updates < MaxOps

Edit == taken' = [taken EXCEPT !.edits = @ + 1]

\* a block is added to the pipeline, declared last
AddBlock(b) ==
    /\ HasOps
    /\ b \notin SeqToSet(blocks)
    /\ blocks' = Append(blocks, b)
    /\ Edit /\ lastCall' = NoCall
    /\ UNCHANGED <<execVars, now, sched, runs, blockRuns, edges, proc, trueDays>>

\* a block is removed from the pipeline, with its edges
RemoveBlock(b) ==
    /\ HasOps
    /\ b \in SeqToSet(blocks)
    /\ blocks' = SelectSeq(blocks, LAMBDA x : x # b)
    /\ edges' = { e \in edges : e[1] # b /\ e[2] # b }
    /\ Edit /\ lastCall' = NoCall
    /\ UNCHANGED <<execVars, now, sched, runs, blockRuns, proc, trueDays>>

\* addEdge(a, b): a becomes upstream of b, unless that closes a cycle
AddEdge(a, b) ==
    /\ HasOps
    /\ {a, b} \subseteq SeqToSet(blocks)
    /\ <<a, b>> \notin edges
    /\ Acyclic(edges \cup {<<a, b>>})
    /\ edges' = edges \cup {<<a, b>>}
    /\ Edit /\ lastCall' = NoCall
    /\ UNCHANGED <<execVars, now, sched, runs, blockRuns, blocks, proc, trueDays>>

\* removeEdge(a, b)
RemoveEdge(a, b) ==
    /\ HasOps
    /\ <<a, b>> \in edges
    /\ edges' = edges \ {<<a, b>>}
    /\ Edit /\ lastCall' = NoCall
    /\ UNCHANGED <<execVars, now, sched, runs, blockRuns, blocks, proc, trueDays>>

\* BaseModel.update(status=st) on block run k
UpdateBlockRun(k, st) ==
    /\ HasOps
    /\ k \in 1 .. Len(blockRuns)
    /\ blockRuns[k].status # st
    /\ blockRuns' = [blockRuns EXCEPT ![k].status = st]
    /\ taken' = [taken EXCEPT !.updates = @ + 1]
    /\ lastCall' = NoCall
    /\ UNCHANGED <<execVars, now, sched, runs, blocks, edges, proc, trueDays>>

\* BaseModel.update(status=st) on pipeline run k
UpdateRun(k, st) ==
    /\ HasOps
    /\ k \in 1 .. Len(runs)
    /\ runs[k].status # st
    /\ runs' = [runs EXCEPT ![k].status = st]
    /\ taken' = [taken EXCEPT !.updates = @ + 1]
    /\ lastCall' = NoCall
    /\ UNCHANGED <<execVars, now, sched, blockRuns, blocks, edges, proc, trueDays>>

NextRun ==
    \/ CreateRun(1, 1, Some("p1"), None)
    \/ \E p \in Procs : BlockRun_create(p)
    \/ \E b \in BlockUuids : AddBlock(b)
    \/ \E b \in BlockUuids : RemoveBlock(b)
    \/ \E a \in BlockUuids, b \in BlockUuids : AddEdge(a, b)
    \/ \E a \in BlockUuids, b \in BlockUuids : RemoveEdge(a, b)
    \/ \E k \in 1 .. Len(blockRuns), st \in BlockRunStatus : UpdateBlockRun(k, st)
    \/ \E k \in 1 .. Len(runs), st \in PipelineRunStatus : UpdateRun(k, st)

SpecRun == InitRun /\ [][NextRun]_vars

-----------------------------------------------------------------------------
(* Completion of a run, over every assignment of block run statuses *)

\* rows the block_run table holds at the start
MaxRows == 3

DeclOrder == <<"A", "B", "C", "A", "B", "C">>

\* the block_run tables of n rows: row k is for block DeclOrder[k], of run 1 or 2
Tables(n) ==
    { [k \in 1 .. n |-> [pipeline_run_id |-> own[k], block_uuid |-> DeclOrder[k],
                         status |-> st[k]]] :
        own \in [1 .. n -> {1, 2}], st \in [1 .. n -> BlockRunStatus] }

InitStatus ==
    /\ now = ClockAt(0, 1)
    /\ sched = [s \in SchedIds |-> DefaultSchedule]
    /\ runs = <<RunRow(1, 1, Some("p1"), None), RunRow(2, 1, Some("p1"), None)>>
    /\ \E n \in 0 .. MaxRows : blockRuns \in Tables(n)
    /\ blocks = <<"A", "B", "C">>
    /\ edges = Linear
    /\ proc = [p \in Procs |-> Idle]
    /\ lastCall = NoCall
    /\ trueDays = [s \in SchedIds |-> {}]
    /\ taken = [edits |-> 0, updates |-> 0]
    /\ NoExecution

\* a caller asks run rid whether all its blocks completed
AskCompleted(rid) ==
    /\ lastCall' = [op |-> "all_blocks_completed", arg |-> rid,
                    ret |-> all_blocks_completed(rid)]
    /\ UNCHANGED <<execVars, now, sched, runs, blockRuns, blocks, edges, proc, trueDays, taken>>

NextStatus ==
    \/ \E rid \in 1 .. Len(runs) : AskCompleted(rid)
    \/ \E k \in 1 .. Len(blockRuns), st \in BlockRunStatus : UpdateBlockRun(k, st)

SpecStatus == InitStatus /\ [][NextStatus]_vars

-----------------------------------------------------------------------------
(* Execution of the blocks of a run *)

\* Block.__store_variables: the store after every pair of the mapping was added
RECURSIVE store_variables(_, _, _)
store_variables(st, blk, mapping) ==
    IF blk.pipeline = None \/ mapping = << >> THEN st
    ELSE store_variables(add_variable(st, Get(blk.pipeline), blk.uuid,
                                      mapping[1][1], mapping[1][2], None),
                         blk, Tail(mapping))

\* the locations Block.__store_variables writes for the mapping
StoredAt(blk, mapping) ==
    IF blk.pipeline = None THEN {}
    ELSE { Location(Variable(mapping[i][1], pipeline_path(Get(blk.pipeline)),
                             blk.uuid, None)) : i \in 1 .. Len(mapping) }

\* Block.execute raises: the outputs are not as many as the declared variables
ArityMismatch(blk, outputs) == PyLen(outputs) # Len(output_variables(blk.type))

\* Block_execute storing the variables before it compares the counts
Block_execute_storeFirst(b, outputs) ==
    LET blk == blockObj[b]
        variable_mapping == Zip(output_variables(blk.type), outputs) IN
    /\ store' = store_variables(store, blk, variable_mapping)
    /\ IF ArityMismatch(blk, outputs)
       THEN UNCHANGED <<blockObj, notified>>
       ELSE /\ blockObj' = [blockObj EXCEPT ![b].status = "executed"]
            /\ notified' = IF blk.pipeline = None THEN notified
                           ELSE Append(notified, b)

\* Block_execute leaving out the call of pipeline.update_block
Block_execute_noNotify(b, outputs) ==
    LET blk == blockObj[b]
        variable_mapping == Zip(output_variables(blk.type), outputs) IN
    IF ArityMismatch(blk, outputs)
    THEN UNCHANGED <<blockObj, store, notified>>
    ELSE /\ store' = store_variables(store, blk, variable_mapping)
         /\ blockObj' = [blockObj EXCEPT ![b].status = "executed"]
         /\ notified' = notified

\* Block.execute that undoes what the pipeline has stored when the outputs do not
\* match
Block_execute_rollback(b, outputs) ==
    LET blk == blockObj[b]
        variable_mapping == Zip(output_variables(blk.type), outputs) IN
    IF ArityMismatch(blk, outputs)
    THEN store' = << >> /\ UNCHANGED <<blockObj, notified>>
    ELSE /\ store' = store_variables(store, blk, variable_mapping)
         /\ blockObj' = [blockObj EXCEPT ![b].status = "executed"]
         /\ notified' = IF blk.pipeline = None THEN notified ELSE Append(notified, b)

\* Block.execute that marks the block executed and stores nothing
Block_execute_statusOnly(b, outputs) ==
    LET blk == blockObj[b] IN
    IF ArityMismatch(blk, outputs)
    THEN UNCHANGED <<blockObj, store, notified>>
    ELSE /\ store' = store
         /\ blockObj' = [blockObj EXCEPT ![b].status = "executed"]
         /\ notified' = IF blk.pipeline = None THEN notified ELSE Append(notified, b)

\* Block.execute of block b after execute_block returned outputs
Block_execute(b, outputs) ==
    LET blk == blockObj[b]
        variable_mapping == Zip(output_variables(blk.type), outputs) IN
    IF ArityMismatch(blk, outputs)
    THEN UNCHANGED <<blockObj, store, notified>>
    ELSE /\ store' = store_variables(store, blk, variable_mapping)
         /\ blockObj' = [blockObj EXCEPT ![b].status = "executed"]
         /\ notified' = IF blk.pipeline = None THEN notified ELSE Append(notified, b)

\* what the execution backend may hand back: the class's own execute_block, or
\* code that returns a tuple of no, one or two values
Outputs ==
    {Tuple(<< >>), Tuple(<<Obj("x")>>), Tuple(<<TestFrame>>),
     Tuple(<<Obj("x"), Obj("y")>>), TestFrame}

\* two runs for the pipeline, the first of schedule 1 without an execution date, the
\* second of any schedule and date; PipelineRun.create has returned for both
InitExec ==
    /\ now = ClockAt(0, 1)
    /\ sched = [s \in SchedIds |-> [DefaultSchedule EXCEPT !.status = "active"]]
    /\ \E s2 \in SchedIds, d2 \in {None} \cup { Some(t) : t \in ClockTimes } :
          runs = <<RunRow(1, 1, Some("p1"), None), RunRow(2, s2, Some("p1"), d2)>>
    /\ blockRuns = [k \in 1 .. 6 |->
                      [pipeline_run_id |-> IF k <= 3 THEN 1 ELSE 2,
                       block_uuid |-> DeclOrder[k], status |-> "initial"]]
    /\ blocks = <<"A", "B", "C">>
    /\ edges = Linear
    /\ proc = [p \in Procs |-> Idle]
    /\ lastCall = NoCall
    /\ trueDays = [s \in SchedIds |-> {}]
    /\ taken = [edits |-> 0, updates |-> 0]
    /\ \E pl \in {None, Some("p1")} :
          blockObj = [b \in BlockUuids |-> NewBlock(b, TypeOf[b], pl)]
    /\ store = << >>
    /\ notified = << >>
    /\ execLog = {}
    /\ puts = NoPuts

\* the block run of run rid for block u
RowOf(rid, u) ==
    CHOOSE k \in 1 .. Len(blockRuns) :
        blockRuns[k].pipeline_run_id = rid /\ blockRuns[k].block_uuid = u

\* every upstream block of row k's block has completed in the same run
Ready(k) ==
    \A u \in Upstream(blockRuns[k].block_uuid) :
        blockRuns[RowOf(blockRuns[k].pipeline_run_id, u)].status = "completed"

\* the executor takes up a created run
StartRun(rid) ==
    /\ runs[rid].status = "initial"
    /\ runs' = [runs EXCEPT ![rid].status = "running"]
    /\ lastCall' = NoCall
    /\ UNCHANGED <<execVars, now, sched, blockRuns, blocks, edges, proc, trueDays, taken>>

\* the executor runs the block of a ready block run: Block.execute with what the
\* backend returned, then the block run goes to completed, or to failed if
\* execute raised
ExecuteBlock(k, outputs) ==
    LET rid == blockRuns[k].pipeline_run_id
        b == blockRuns[k].block_uuid
        blk == blockObj[b]
        failed == ArityMismatch(blk, outputs) IN
    /\ runs[rid].status = "running"
    /\ blockRuns[k].status = "initial"
    /\ Ready(k)
    /\ Block_execute(b, outputs)
    /\ blockRuns' = [blockRuns EXCEPT ![k].status =
                        IF failed THEN "failed" ELSE "completed"]
    /\ lastCall' = [op |-> "execute", arg |-> b,
                    ret |-> [raised |-> failed, outputs |-> outputs, rid |-> rid]]
    /\ execLog' = execLog \cup
          {[rid |-> rid, block |-> b, raised |-> failed,
            partition |-> execution_partition(rid),
            own |-> outputs = execute_block(blk.type),
            locations |-> IF failed THEN {}
                          ELSE StoredAt(blk, Zip(output_variables(blk.type), outputs))]}
    /\ puts' = IF failed \/ blk.pipeline = None THEN puts
               ELSE LET mapping == Zip(output_variables(blk.type), outputs) IN
                    LogPuts(puts, [i \in 1 .. Len(mapping) |->
                                     [location |-> KeyLocation(<<Get(blk.pipeline), b,
                                                                 mapping[i][1]>>),
                                      data |-> mapping[i][2],
                                      variable_type |-> None]])
    /\ UNCHANGED <<now, sched, runs, blocks, edges, proc, trueDays, taken>>

\* the run becomes completed once all its block runs are completed
CompleteRun(rid) ==
    /\ runs[rid].status = "running"
    /\ all_blocks_completed(rid)
    /\ runs' = [runs EXCEPT ![rid].status = "completed"]
    /\ lastCall' = NoCall
    /\ UNCHANGED <<execVars, now, sched, blockRuns, blocks, edges, proc, trueDays, taken>>

\* a failed block run is propagated to its run
FailRun(rid) ==
    /\ runs[rid].status = "running"
    /\ \E k \in 1 .. Len(blockRuns) :
          blockRuns[k].pipeline_run_id = rid /\ blockRuns[k].status = "failed"
    /\ runs' = [runs EXCEPT ![rid].status = "failed"]
    /\ lastCall' = NoCall
    /\ UNCHANGED <<execVars, now, sched, blockRuns, blocks, edges, proc, trueDays, taken>>

\* cancellation that marks the run and leaves its block runs as they are
CancelRun_runOnly(rid) ==
    /\ runs[rid].status \in {"initial", "running"}
    /\ runs' = [runs EXCEPT ![rid].status = "cancelled"]
    /\ lastCall' = NoCall
    /\ UNCHANGED <<execVars, now, sched, blockRuns, blocks, edges, proc, trueDays, taken>>

\* cancellation of a run: its block runs that are not terminal become cancelled
CancelRun(rid) ==
    /\ runs[rid].status \in {"initial", "running"}
    /\ runs' = [runs EXCEPT ![rid].status = "cancelled"]
    /\ blockRuns' = [k \in 1 .. Len(blockRuns) |->
                       IF blockRuns[k].pipeline_run_id = rid
                          /\ blockRuns[k].status \in {"initial", "queued", "running"}
                       THEN [blockRuns[k] EXCEPT !.status = "cancelled"]
                       ELSE blockRuns[k]]
    /\ lastCall' = NoCall
    /\ UNCHANGED <<execVars, now, sched, blocks, edges, proc, trueDays, taken>>

NextExec ==
    \/ \E rid \in 1 .. Len(runs) : StartRun(rid)
    \/ \E k \in 1 .. Len(blockRuns), o \in Outputs : ExecuteBlock(k, o)
    \/ \E rid \in 1 .. Len(runs) : CompleteRun(rid)
    \/ \E rid \in 1 .. Len(runs) : FailRun(rid)
    \/ \E rid \in 1 .. Len(runs) : CancelRun(rid)

SpecExec == InitExec /\ [][NextExec]_vars

-----------------------------------------------------------------------------
(* The variable store on its own: any sequence of puts and gets *)

\* calls of add_variable in one behaviour
MaxPuts == 3

\* the keys the callers use: they differ in pipeline, in block and in variable
StoreKeys ==
    {<<"p1", "A", "df">>, <<"p1", "A", "df2">>, <<"p1", "B", "df">>, <<"p2", "A", "df">>,
     <<"p1", "A", "df.v2">>}

\* the values the callers write
StoreValues == {Obj("x"), TestFrame}

\* the variable_type arguments the callers pass
TypeArgs == {None, Some("dataframe_analysis")}

InitStore ==
    /\ now = ClockAt(0, 1)
    /\ sched = [s \in SchedIds |-> DefaultSchedule]
    /\ runs = << >>
    /\ blockRuns = << >>
    /\ blocks = <<"A", "B", "C">>
    /\ edges = Linear
    /\ proc = [p \in Procs |-> Idle]
    /\ lastCall = NoCall
    /\ trueDays = [s \in SchedIds |-> {}]
    /\ taken = [edits |-> 0, updates |-> 0]
    /\ NoExecution

\* put(key, value): VariableManager.add_variable
Put(key, data, variable_type) ==
    /\ puts.count < MaxPuts
    /\ store' = add_variable(store, key[1], key[2], key[3], data, variable_type)
    /\ puts' = LogPuts(puts, <<[location |-> KeyLocation(key), data |-> data,
                                variable_type |-> variable_type]>>)
    /\ lastCall' = [op |-> "add_variable", arg |-> key, ret |-> data]
    /\ UNCHANGED <<blockObj, notified, execLog, now, sched, runs, blockRuns, blocks,
                   edges, proc, trueDays, taken>>

\* get(key, sample): VariableManager.get_variable
GetVar(key, variable_type, sample) ==
    /\ lastCall' = [op |-> "get_variable", arg |-> key,
                    ret |-> get_variable(store, key[1], key[2], key[3],
                                         variable_type, sample),
                    sample |-> sample]
    /\ UNCHANGED <<execVars, now, sched, runs, blockRuns, blocks, edges, proc,
                   trueDays, taken>>

\* listByPipeline(pipeline_uuid): VariableManager.get_variables_by_pipeline
ListVars(pipeline_uuid) ==
    /\ lastCall' = [op |-> "get_variables_by_pipeline", arg |-> pipeline_uuid,
                    ret |-> get_variables_by_pipeline(store, pipeline_uuid)]
    /\ UNCHANGED <<execVars, now, sched, runs, blockRuns, blocks, edges, proc,
                   trueDays, taken>>

NextStore ==
    \/ \E key \in StoreKeys, data \in StoreValues, vt \in TypeArgs : Put(key, data, vt)
    \/ \E key \in StoreKeys, vt \in TypeArgs, sample \in BOOLEAN : GetVar(key, vt, sample)
    \/ \E pipeline_uuid \in PipelineUuids : ListVars(pipeline_uuid)

SpecStore == InitStore /\ [][NextStore]_vars

-----------------------------------------------------------------------------
(* Edge updates of the blocks of a pipeline: Block.update *)

\* the uuids in declaration order of the blocks in S
ListOf(S) == SelectSeq(<<"A", "B", "C">>, LAMBDA b : b \in S)

\* Block.upstream_block_uuids and Block.downstream_block_uuids; the lists of a
\* block hold the uuids of its neighbours
upstream_block_uuids(blk) == blk.upstream_blocks
downstream_block_uuids(blk) == blk.downstream_blocks

\* the blocks as the pipeline hands them out for the edges E: each edge is in the
\* downstream list of its source and in the upstream list of its target
LoadedBlocks(E, pipeline) ==
    [b \in BlockUuids |->
        [NewBlock(b, TypeOf[b], pipeline) EXCEPT
            !.upstream_blocks = ListOf({ a \in BlockUuids : <<a, b>> \in E }),
            !.downstream_blocks = ListOf({ c \in BlockUuids : <<b, c>> \in E })]]

\* the edges the upstream lists hold, and the edges the downstream lists hold
UpstreamEdges(objs) ==
    { e \in BlockUuids \X BlockUuids : e[1] \in SeqToSet(upstream_block_uuids(objs[e[2]])) }
DownstreamEdges(objs) ==
    { e \in BlockUuids \X BlockUuids : e[2] \in SeqToSet(downstream_block_uuids(objs[e[1]])) }

\* the data of an update call: a key that is absent from the dictionary is None
UpdateData ==
    [name : {None, Some("renamed")},
     upstream_blocks : {None} \cup { Some(ListOf(S)) : S \in SUBSET BlockUuids },
     downstream_blocks : {None} \cup { Some(ListOf(S)) : S \in SUBSET BlockUuids }]

\* Block.update asks for other upstream blocks, or for other downstream blocks
AsksUpstream(blk, data) ==
    /\ data.upstream_blocks # None
    /\ SeqToSet(Get(data.upstream_blocks)) # SeqToSet(upstream_block_uuids(blk))
AsksDownstream(blk, data) ==
    /\ data.downstream_blocks # None
    /\ SeqToSet(Get(data.downstream_blocks)) # SeqToSet(downstream_block_uuids(blk))

\* Block.__update_name: not implemented, returns at once
update_name(objs, b) == objs

\* Block.update that sets the list of the block itself and no other block's
Block_update_upstreamOnly(b, data) ==
    LET blk == blockObj[b] IN
    /\ blockObj' =
          IF AsksUpstream(blk, data)
          THEN [blockObj EXCEPT ![b].upstream_blocks = Get(data.upstream_blocks)]
          ELSE blockObj
    /\ lastCall' = [op |-> "update", arg |-> b,
                    ret |-> [raised |-> "none", data |-> data]]

\* Block.update: __update_upstream_blocks and __update_downstream_blocks take the
\* new list as an argument and update calls them without one, so the call raises
\* TypeError before either body runs
Block_update(b, data) ==
    LET blk == blockObj[b] IN
    /\ blockObj' = IF data.name # None /\ Get(data.name) # blk.name
                   THEN update_name(blockObj, b) ELSE blockObj
    /\ lastCall' = [op |-> "update", arg |-> b,
                    ret |-> [raised |-> IF AsksUpstream(blk, data)
                                           \/ AsksDownstream(blk, data)
                                        THEN "TypeError" ELSE "none",
                             data |-> data]]

\* shapes of the pipeline besides the chain: a loader with two blocks behind it,
\* and an exporter behind two blocks
Fork == {<<"A", "B">>, <<"A", "C">>}
Join == {<<"A", "C">>, <<"B", "C">>}

\* the edge sets the pipeline starts with: none, one edge, and the three shapes
Shapes == {{}, {<<"A", "B">>}, Linear, Fork, Join}

\* a pipeline with one of the edge sets, its blocks attached to it or detached
InitEdit ==
    /\ now = ClockAt(0, 1)
    /\ sched = [s \in SchedIds |-> DefaultSchedule]
    /\ runs = << >>
    /\ blockRuns = << >>
    /\ blocks = <<"A", "B", "C">>
    /\ edges \in Shapes
    /\ proc = [p \in Procs |-> Idle]
    /\ lastCall = NoCall
    /\ trueDays = [s \in SchedIds |-> {}]
    /\ taken = [edits |-> 0, updates |-> 0]
    /\ \E pl \in {None, Some("p1")} : blockObj = LoadedBlocks(edges, pl)
    /\ store = << >>
    /\ notified = << >>
    /\ execLog = {}
    /\ puts = NoPuts

\* a caller updates block b with data
UpdateBlock(b, data) ==
    /\ Block_update(b, data)
    /\ UNCHANGED <<store, notified, execLog, puts, now, sched, runs, blockRuns, blocks,
                   edges, proc, trueDays, taken>>

NextEdit == \E b \in BlockUuids, data \in UpdateData : UpdateBlock(b, data)

SpecEdit == InitEdit /\ [][NextEdit]_vars

-----------------------------------------------------------------------------
(* Execution of one run by a pool of workers *)

\* run 1 of the pipeline was created and taken up, its blocks belong to the pipeline
InitWorkers ==
    /\ now = ClockAt(0, 1)
    /\ sched = [s \in SchedIds |-> [DefaultSchedule EXCEPT !.status = "active"]]
    /\ runs = <<[RunRow(1, 1, Some("p1"), None) EXCEPT !.status = "running"]>>
    /\ blockRuns = [k \in 1 .. 3 |->
                      [pipeline_run_id |-> 1, block_uuid |-> DeclOrder[k],
                       status |-> "initial"]]
    /\ blocks = <<"A", "B", "C">>
    /\ edges \in {Linear, Fork, Join}
    /\ proc = [p \in Procs |-> Idle]
    /\ lastCall = NoCall
    /\ trueDays = [s \in SchedIds |-> {}]
    /\ taken = [edits |-> 0, updates |-> 0]
    /\ NoExecution

\* a worker that starts a block only while no other block of the run is suspended
StartBlock_oneAtATime(p, k) ==
    /\ proc[p] = Idle
    /\ \A q \in Procs : proc[q] = Idle
    /\ runs[blockRuns[k].pipeline_run_id].status = "running"
    /\ blockRuns[k].status = "initial"
    /\ Ready(k)
    /\ blockRuns' = [blockRuns EXCEPT ![k].status = "running"]
    /\ proc' = [proc EXCEPT ![p] = [Idle EXCEPT !.pc = "executing", !.i = k]]
    /\ lastCall' = [op |-> "start", arg |-> blockRuns[k].block_uuid, ret |-> k]
    /\ UNCHANGED <<execVars, now, sched, runs, blocks, edges, trueDays, taken>>

\* worker p takes a ready block run from the queue and starts its block
StartBlock(p, k) ==
    /\ proc[p] = Idle
    /\ runs[blockRuns[k].pipeline_run_id].status = "running"
    /\ blockRuns[k].status = "initial"
    /\ Ready(k)
    /\ blockRuns' = [blockRuns EXCEPT ![k].status = "running"]
    /\ proc' = [proc EXCEPT ![p] = [Idle EXCEPT !.pc = "executing", !.i = k]]
    /\ lastCall' = [op |-> "start", arg |-> blockRuns[k].block_uuid, ret |-> k]
    /\ UNCHANGED <<execVars, now, sched, runs, blocks, edges, trueDays, taken>>

\* the block's code has returned outputs to worker p: the rest of Block.execute,
\* then the block run goes to completed, or to failed if execute raised
FinishBlock(p, outputs) ==
    LET k == proc[p].i
        b == blockRuns[k].block_uuid IN
    /\ proc[p].pc = "executing"
    /\ Block_execute(b, outputs)
    /\ blockRuns' = [blockRuns EXCEPT ![k].status =
                        IF ArityMismatch(blockObj[b], outputs)
                        THEN "failed" ELSE "completed"]
    /\ proc' = [proc EXCEPT ![p] = Idle]
    /\ lastCall' = [op |-> "execute", arg |-> b,
                    ret |-> [raised |-> ArityMismatch(blockObj[b], outputs),
                             outputs |-> outputs, rid |-> blockRuns[k].pipeline_run_id]]
    /\ UNCHANGED <<execLog, puts, now, sched, runs, blocks, edges, trueDays, taken>>

\* the block's code has returned outputs of the declared arity to worker p and
\* the first add_variable of __store_variables raises: execute stops there, with
\* nothing stored and the status as it was, and the block run goes to failed
FinishBlockStoreFails(p, outputs) ==
    LET k == proc[p].i
        b == blockRuns[k].block_uuid IN
    /\ proc[p].pc = "executing"
    /\ ~ArityMismatch(blockObj[b], outputs)
    /\ blockObj[b].pipeline # None
    /\ Zip(output_variables(blockObj[b].type), outputs) # << >>
    /\ blockRuns' = [blockRuns EXCEPT ![k].status = "failed"]
    /\ proc' = [proc EXCEPT ![p] = Idle]
    /\ lastCall' = [op |-> "execute", arg |-> b,
                    ret |-> [raised |-> TRUE, outputs |-> outputs,
                             rid |-> blockRuns[k].pipeline_run_id]]
    /\ UNCHANGED <<execVars, now, sched, runs, blocks, edges, trueDays, taken>>

NextWorkers ==
    \/ \E p \in Procs, k \in 1 .. Len(blockRuns) : StartBlock(p, k)
    \/ \E p \in Procs, o \in Outputs : FinishBlock(p, o)
    \/ \E p \in Procs, o \in Outputs : FinishBlockStoreFails(p, o)

SpecWorkers == InitWorkers /\ [][NextWorkers]_vars

-----------------------------------------------------------------------------
(* Execution of one run to its end, under fair scheduling *)

\* the workers start and finish blocks, and the run is closed as completed or as
\* failed
NextLive ==
    \/ \E p \in Procs, k \in 1 .. Len(blockRuns) : StartBlock(p, k)
    \/ \E p \in Procs, o \in Outputs : FinishBlock(p, o)
    \/ \E rid \in 1 .. Len(runs) : CompleteRun(rid)
    \/ \E rid \in 1 .. Len(runs) : FailRun(rid)

\* the event loop keeps running what is ready: a step that stays possible is taken
SpecLive == InitWorkers /\ [][NextLive]_vars /\ WF_vars(NextLive)

-----------------------------------------------------------------------------
(* Construction of blocks: the classes, get_block and Block.create *)

\* the block_type arguments of the callers: the four types and one other tag
TypeTags == BlockType \cup {"chart"}

\* BLOCK_TYPE_TO_CLASS
BLOCK_TYPE_TO_CLASS ==
    [t \in BlockType |->
        IF t = "data_exporter" THEN "DataExporterBlock"
        ELSE IF t = "data_loader" THEN "DataLoaderBlock"
        ELSE IF t = "scratchpad" THEN "Block" ELSE "TransformerBlock"]

\* the output_variables property of each class
class_output_variables(cls) ==
    IF cls \in {"DataLoaderBlock", "TransformerBlock"} THEN <<"df">> ELSE << >>

\* an object of class cls as Block.__init__ leaves it
Construct(cls, name, uuid, block_type, status, pipeline) ==
    [class |-> cls, name |-> IF name = None THEN uuid ELSE Get(name), uuid |-> uuid,
     type |-> block_type, status |-> status, pipeline |-> pipeline,
     upstream_blocks |-> << >>, downstream_blocks |-> << >>]

\* get_block that builds a plain Block for every tag
get_block_plain(name, uuid, block_type, status, pipeline) ==
    Construct("Block", name, uuid, block_type, status, pipeline)

\* Block.get_block: BLOCK_TYPE_TO_CLASS.get(block_type, Block)
get_block(name, uuid, block_type, status, pipeline) ==
    Construct(IF block_type \in DOMAIN BLOCK_TYPE_TO_CLASS
              THEN BLOCK_TYPE_TO_CLASS[block_type] ELSE "Block",
              name, uuid, block_type, status, pipeline)

\* Block.create: Block(name, uuid, block_type), with the name as uuid
create(name, block_type) ==
    Construct("Block", Some(name), name, block_type, "not_executed", None)

InitTypes ==
    /\ now = ClockAt(0, 1)
    /\ sched = [s \in SchedIds |-> DefaultSchedule]
    /\ runs = << >>
    /\ blockRuns = << >>
    /\ blocks = <<"A", "B", "C">>
    /\ edges = Linear
    /\ proc = [p \in Procs |-> Idle]
    /\ lastCall = NoCall
    /\ trueDays = [s \in SchedIds |-> {}]
    /\ taken = [edits |-> 0, updates |-> 0]
    /\ NoExecution

\* a caller builds a block through get_block
GetBlock(name, uuid, block_type, status, pipeline) ==
    /\ lastCall' = [op |-> "get_block", arg |-> block_type,
                    ret |-> get_block(name, uuid, block_type, status, pipeline)]
    /\ UNCHANGED <<execVars, now, sched, runs, blockRuns, blocks, edges, proc,
                   trueDays, taken>>

\* a caller builds a block through Block.create
CreateBlock(name, block_type) ==
    /\ lastCall' = [op |-> "create", arg |-> block_type, ret |-> create(name, block_type)]
    /\ UNCHANGED <<execVars, now, sched, runs, blockRuns, blocks, edges, proc,
                   trueDays, taken>>

\* the block built last is executed and its code returns outputs: execute raises
\* unless they are as many as the class declares
ExecuteBuilt(outputs) ==
    /\ lastCall.op \in {"get_block", "create"}
    /\ lastCall' = [op |-> "execute_built", arg |-> lastCall.arg,
                    ret |-> [block |-> lastCall.ret, built |-> lastCall.op,
                             outputs |-> outputs,
                             raised |-> PyLen(outputs)
                                 # Len(class_output_variables(lastCall.ret.class))]]
    /\ UNCHANGED <<execVars, now, sched, runs, blockRuns, blocks, edges, proc,
                   trueDays, taken>>

NextTypes ==
    \/ \E name \in {None, Some("n")}, uuid \in BlockUuids, t \in TypeTags,
          st \in BlockStatus, pl \in {None, Some("p1")} : GetBlock(name, uuid, t, st, pl)
    \/ \E name \in BlockUuids, t \in TypeTags : CreateBlock(name, t)
    \/ \E o \in Outputs : ExecuteBuilt(o)

SpecTypes == InitTypes /\ [][NextTypes]_vars

-----------------------------------------------------------------------------
(* The trigger decision while the runs of the schedule change their status *)

\* schedule 1 is active, with any interval and no start time
InitTrigger ==
    /\ now = ClockAt(0, 1)
    /\ \E iv \in Intervals :
          sched = [s \in SchedIds |->
                     IF s = 1
                     THEN [DefaultSchedule EXCEPT !.schedule_interval = iv,
                                                  !.status = "active"]
                     ELSE DefaultSchedule]
    /\ runs = <<>>
    /\ blockRuns = <<>>
    /\ blocks = <<>>
    /\ edges = {}
    /\ proc = [p \in Procs |-> Idle]
    /\ lastCall = NoCall
    /\ trueDays = [s \in SchedIds |-> {}]
    /\ taken = [edits |-> 0, updates |-> 0]
    /\ NoExecution

\* one polling loop decides and creates runs as time passes, and the executor
\* moves the runs to running, failed or cancelled
NextTrigger ==
    \/ Tick
    \/ \E s \in SchedIds : Poll(1, s)
    \/ ScheduleRun(1)
    \/ \E k \in 1 .. MaxRuns, st \in {"running", "failed", "cancelled"} : UpdateRun(k, st)

SpecTrigger == InitTrigger /\ [][NextTrigger]_vars

-----------------------------------------------------------------------------
(* The truncation to the execution date, over the intervals and pairs of times *)

\* current_execution_date of schedule s is evaluated now and at the clock reading
\* t2, and once more at the execution date it returned for now
Canonical(s, t2) ==
    LET iv == sched[s].schedule_interval
        t1 == now
        c1 == execution_date_at(iv, t1) IN
    /\ lastCall' = [op |-> "current_execution_date", arg |-> <<iv, t1, t2>>,
                    ret |-> [at1 |-> c1, at2 |-> execution_date_at(iv, t2),
                             again |-> IF c1 = None THEN None
                                       ELSE execution_date_at(iv, Get(c1))]]
    /\ UNCHANGED <<execVars, now, sched, runs, blockRuns, blocks, edges, proc,
                   trueDays, taken>>

NextDates ==
    \/ Tick
    \/ \E s \in SchedIds, t2 \in ClockTimes : Canonical(s, t2)

SpecDates == Init /\ [][NextDates]_vars

-----------------------------------------------------------------------------
(* The search for a free port at server start (mage_ai/server/server.py, main) *)

\* the ports main is started with
StartPorts == {6789, 8000}

\* max_port = port + 100
PortSpan == 100

\* the ports in use when the first n ports from p on are taken and the next is free
InUse(p, n) == p .. p + n - 1

\* is_port_in_use(port) for a search that was started with arg
is_port_in_use(arg, port) == port \in InUse(arg.port, arg.taken)

\* main is called with port p while the n ports from p on are in use
StartSearch(p, n) ==
    /\ lastCall.op = "none"
    /\ lastCall' = [op |-> "main", arg |-> [port |-> p, taken |-> n],
                    ret |-> [pc |-> "probe", port |-> p, max_port |-> p + PortSpan]]
    /\ UNCHANGED <<execVars, now, sched, runs, blockRuns, blocks, edges, proc,
                   trueDays, taken>>

\* one evaluation of the loop condition, and of the loop body if the port is in
\* use; app.listen(port) once the condition is false
Probe ==
    /\ lastCall.op = "main"
    /\ lastCall.ret.pc = "probe"
    /\ lastCall' =
          IF is_port_in_use(lastCall.arg, lastCall.ret.port)
          THEN IF lastCall.ret.port > lastCall.ret.max_port
               THEN [lastCall EXCEPT !.ret.pc = "raised"]
               ELSE [lastCall EXCEPT !.ret.port = @ + 1]
          ELSE [lastCall EXCEPT !.ret.pc = "listening"]
    /\ UNCHANGED <<execVars, now, sched, runs, blockRuns, blocks, edges, proc,
                   trueDays, taken>>

NextPorts ==
    \/ \E p \in StartPorts, n \in 0 .. PortSpan + 3 : StartSearch(p, n)
    \/ Probe

SpecPorts == InitTypes /\ [][NextPorts]_vars

-----------------------------------------------------------------------------
(* Properties of the trigger decision *)

RunIds == 1 .. Len(runs)

\* the ids of the runs schedule s owns
OwnedRuns(s) == { k \in RunIds : runs[k].pipeline_schedule_id = s }

\* the runs a polling loop created: those carrying the schedule's pipeline
PolledRuns == { k \in RunIds : runs[k].pipeline_uuid # None }

Active(s) == sched[s].status = "active"

\* start_time is set and lies after the clock
StartsLater(s) == sched[s].start_time # None /\ DtLess(now, Get(sched[s].start_time))

Midnight(c) == c.hour = 0 /\ c.minute = 0 /\ c.second = 0 /\ c.microsecond = 0

\* c is the boundary of the interval that instant t lies in
IsCanonical(interval, t, c) ==
    CASE interval = "@daily" ->
            DateOf(c) = DateOf(t) /\ Midnight(c)
      [] interval = "@hourly" ->
            DateOf(c) = DateOf(t) /\ c.hour = t.hour
            /\ c.minute = 0 /\ c.second = 0 /\ c.microsecond = 0
      [] interval = "@weekly" ->
            Midnight(c) /\ Weekday(c) = 0
            /\ ToOrdinal(c) <= ToOrdinal(t) /\ ToOrdinal(t) - ToOrdinal(c) < 7
      [] interval = "@monthly" ->
            c.year = t.year /\ c.month = t.month /\ c.day = 1 /\ Midnight(c)
      [] OTHER -> FALSE

\* schedule s owns a run whose execution_date is the canonical timestamp of the clock
HasCanonicalRun(s) ==
    \E k \in OwnedRuns(s) :
        /\ runs[k].execution_date # None
        /\ IsCanonical(sched[s].schedule_interval, now, Get(runs[k].execution_date))

\* the latest step was should_schedule on s
Asked(s) == lastCall.op = "should_schedule" /\ lastCall.arg = s

\* C1: polling loops that evaluate should_schedule and then create a run never
\* persist two runs with the same schedule id and the same execution date.
C1_OneRunPerExecutionDate ==
    \A i \in PolledRuns, j \in PolledRuns :
        (i < j /\ runs[i].pipeline_schedule_id = runs[j].pipeline_schedule_id
               /\ runs[i].execution_date # None)
            => runs[i].execution_date # runs[j].execution_date

\* C2: for an active '@once' schedule whose start_time is not in the future,
\* should_schedule is true iff the schedule owns no run, in every state and for
\* every answer a caller got.
C2_OnceIffNoRun ==
    \A s \in SchedIds :
        (sched[s].schedule_interval = "@once" /\ Active(s) /\ ~StartsLater(s))
            => /\ should_schedule(s) <=> (OwnedRuns(s) = {})
               /\ Asked(s) => (lastCall.ret <=> (OwnedRuns(s) = {}))

\* a caller asked about an '@once' schedule after a polling loop created its run,
\* and was answered False
C2_Witness ==
    \E s \in SchedIds :
        /\ sched[s].schedule_interval = "@once" /\ Active(s) /\ ~StartsLater(s)
        /\ Asked(s) /\ ~lastCall.ret
        /\ OwnedRuns(s) \cap PolledRuns # {}
        /\ trueDays[s] # {}

\* C3: for a '@daily' schedule, when every earlier True answer has been followed by
\* the creation of its run, should_schedule is not answered True at a time whose
\* calendar day already had a True answer.
C3_DailyOncePerDay ==
    [][\A p \in Procs, s \in SchedIds :
          ( /\ Poll(p, s)
            /\ sched[s].schedule_interval = "@daily"
            /\ lastCall'.ret
            /\ \A q \in Procs : ~(proc[q].pc = "create" /\ proc[q].sid = s) )
          => DateOf(now) \notin trueDays[s]]_vars

\* a '@daily' schedule answered True earlier the same day and, asked again later
\* that day with its run created, answers False
C3_Witness ==
    \E s \in SchedIds :
        /\ sched[s].schedule_interval = "@daily"
        /\ Asked(s) /\ ~lastCall.ret
        /\ DateOf(now) \in trueDays[s]
        /\ ~Midnight(now)
        /\ \E k \in OwnedRuns(s) \cap PolledRuns : Get(runs[k].execution_date).day = now.day

\* C4: for an active recurring schedule whose start_time is not in the future,
\* should_schedule is true iff the schedule owns no run whose execution_date is the
\* canonical timestamp of the current time.
C4_RecurringIffNoCanonicalRun ==
    \A s \in SchedIds :
        (sched[s].schedule_interval \in Recurring /\ Active(s) /\ ~StartsLater(s))
            => /\ should_schedule(s) <=> ~HasCanonicalRun(s)
               /\ Asked(s) => (lastCall.ret <=> ~HasCanonicalRun(s))

\* a recurring schedule that already owns a run of an earlier interval is answered True
C4_Witness ==
    \E s \in SchedIds :
        /\ sched[s].schedule_interval \in Recurring /\ Active(s) /\ ~StartsLater(s)
        /\ Asked(s) /\ lastCall.ret
        /\ \E k \in OwnedRuns(s) : runs[k].execution_date # None

\* C5: should_schedule is false whenever the schedule is not active, and whenever
\* start_time is set and the clock is before it, for every interval and every set
\* of runs.
C5_FalseWhenInactiveOrEarly ==
    \A s \in SchedIds :
        (~Active(s) \/ StartsLater(s))
            => /\ ~should_schedule(s)
               /\ Asked(s) => ~lastCall.ret

\* an active schedule that owns no run is answered False only because its
\* start_time lies ahead
C5_Witness ==
    \E s \in SchedIds :
        /\ Active(s) /\ StartsLater(s)
        /\ OwnedRuns(s) = {}
        /\ sched[s].schedule_interval \in Recurring \cup {"@once"}
        /\ Asked(s) /\ ~lastCall.ret

\* C6: the canonical execution timestamp of the clock is midnight of its date for
\* '@daily', the top of its hour for '@hourly', midnight of the Monday of its week
\* for '@weekly', and midnight of day 1 of its month for '@monthly'.
C6_CanonicalTimestamp ==
    \A s \in SchedIds :
        sched[s].schedule_interval \in Recurring
            => /\ current_execution_date(s) # None
               /\ IsCanonical(sched[s].schedule_interval, now, Get(current_execution_date(s)))

\* a polling loop created a '@weekly' run on a Tuesday: its execution date is the
\* Monday before, in the previous month
C6_Witness ==
    \E s \in SchedIds, k \in PolledRuns :
        /\ sched[s].schedule_interval = "@weekly"
        /\ runs[k].pipeline_schedule_id = s
        /\ Weekday(now) = 1
        /\ Get(runs[k].execution_date).month # now.month
        /\ IsCanonical("@weekly", now, Get(runs[k].execution_date))

-----------------------------------------------------------------------------
(* Properties of run creation *)

\* the block uuids of the block runs of run rid, in row order
UuidsOf(rid) == [k \in 1 .. Len(block_runs(rid)) |-> block_runs(rid)[k].block_uuid]

\* PipelineRun.create for run rid is inside its loop
Creating(rid) == \E p \in Procs : proc[p].pc = "blockruns" /\ proc[p].rid = rid

\* C7: PipelineRun.create for a pipeline persists one PipelineRun; it snapshots the
\* executable blocks of that moment, creates every BlockRun with status initial, and
\* when it returns the run's BlockRuns are one per block of the snapshot and no
\* other; the linear pipeline A->B->C gives the three blocks A, B, C.
C7_OneBlockRunPerExecutableBlock ==
    [][/\ Len(runs') = Len(runs) + 1 =>
             /\ runs' = Append(runs, runs'[Len(runs')])
             /\ runs'[Len(runs')].status = "initial"
             /\ blockRuns' = blockRuns
             /\ IF get_executable_blocks = <<>>
                THEN proc' = proc
                ELSE \E p \in Procs :
                        /\ proc'[p].pc = "blockruns" /\ proc'[p].rid = Len(runs')
                        /\ proc'[p].todo = get_executable_blocks
             /\ (blocks = <<"A", "B", "C">> /\ edges = Linear)
                   => get_executable_blocks = <<"A", "B", "C">>
       /\ \A p \in Procs, rid \in RunIds :
             (proc[p].pc = "blockruns" /\ proc[p].rid = rid /\ proc'[p] # proc[p]) =>
                /\ blockRuns' = Append(blockRuns, blockRuns'[Len(blockRuns')])
                /\ blockRuns'[Len(blockRuns')].status = "initial"
                /\ blockRuns'[Len(blockRuns')].pipeline_run_id = rid
                /\ proc'[p].pc = "idle" => UuidsOf(rid)' = proc[p].todo]_vars

\* PipelineRun.create has returned for the untouched linear pipeline A->B->C: run 1
\* owns three block runs, for A, B and C, all initial
C7_Witness ==
    /\ blocks = <<"A", "B", "C">> /\ edges = Linear
    /\ taken.edits = 0 /\ taken.updates = 0
    /\ Len(runs) = 1 /\ ~Creating(1)
    /\ UuidsOf(1) = <<"A", "B", "C">>
    /\ Len(blockRuns) = 3
    /\ \A k \in 1 .. 3 : blockRuns[k].status = "initial"

\* C8: a persisted PipelineRun owns all the BlockRuns of its snapshot or none of
\* them, in every state another caller can observe.
C8_AllOrNoBlockRuns ==
    \A p \in Procs :
        proc[p].pc = "blockruns"
            => Len(block_runs(proc[p].rid)) \in {0, Len(proc[p].todo)}

\* C9: once PipelineRun.create has returned, the block uuids of the run's BlockRuns
\* never change, whatever pipeline edits, status updates and later creations
\* follow; rows of both tables change in their status field only.
C9_BlockRunSetImmutable ==
    [][/\ \A rid \in RunIds : ~Creating(rid) => UuidsOf(rid)' = UuidsOf(rid)
       /\ \A k \in 1 .. Len(runs) :
             runs'[k] = [runs[k] EXCEPT !.status = runs'[k].status]
       /\ \A k \in 1 .. Len(blockRuns) :
             blockRuns'[k] = [blockRuns[k] EXCEPT !.status = blockRuns'[k].status]]_vars

\* a returned run still references a block the pipeline has lost since, and one of
\* its block runs has left status initial
C9_Witness ==
    \E rid \in RunIds :
        /\ ~Creating(rid)
        /\ \E k \in 1 .. Len(UuidsOf(rid)) : UuidsOf(rid)[k] \notin SeqToSet(blocks)
        /\ \E k \in 1 .. Len(block_runs(rid)) : block_runs(rid)[k].status # "initial"
        /\ taken.edits > 0 /\ taken.updates > 0

-----------------------------------------------------------------------------
(* Properties of completion *)

\* rows of the block_run table that run rid owns
OwnedRows(rid) == { k \in 1 .. Len(blockRuns) : blockRuns[k].pipeline_run_id = rid }

EveryRowCompleted(rid) == \A k \in OwnedRows(rid) : blockRuns[k].status = "completed"

\* C10: all_blocks_completed(run) is true iff every BlockRun the run owns is
\* completed; one owned BlockRun that is initial, queued, running, failed or
\* cancelled makes it false.
C10_AllBlocksCompletedIff ==
    \A rid \in RunIds :
        /\ all_blocks_completed(rid) <=> EveryRowCompleted(rid)
        /\ (\E k \in OwnedRows(rid) :
                blockRuns[k].status \in {"initial", "queued", "running", "failed", "cancelled"})
              => ~all_blocks_completed(rid)
        /\ (lastCall.op = "all_blocks_completed" /\ lastCall.arg = rid)
              => (lastCall.ret <=> EveryRowCompleted(rid))

\* a run owning two completed block runs is answered True while the other run owns
\* a failed one
C10_Witness ==
    \E rid \in RunIds, other \in RunIds :
        /\ lastCall.op = "all_blocks_completed" /\ lastCall.arg = rid /\ lastCall.ret
        /\ Cardinality(OwnedRows(rid)) = 2
        /\ \E k \in OwnedRows(other) : blockRuns[k].status = "failed"

-----------------------------------------------------------------------------
(* Properties of execution *)

\* the latest step was a call of Block.execute
Executed == execLog' # execLog

\* values the block of the latest call declares
Arity(b) == IF TypeOf[b] \in {"data_loader", "transformer"} THEN 1 ELSE 0

\* C11: a PipelineRun with status completed has every owned BlockRun in status
\* completed; a run that owns a failed BlockRun is never completed.
C11_CompletedRunAllBlocksCompleted ==
    \A rid \in RunIds :
        runs[rid].status = "completed" =>
            /\ EveryRowCompleted(rid)
            /\ ~ \E k \in OwnedRows(rid) : blockRuns[k].status = "failed"

\* one run is completed with its three block runs completed, the other is failed
\* and owns a failed block run
C11_Witness ==
    \E rid \in RunIds, other \in RunIds :
        /\ runs[rid].status = "completed"
        /\ Cardinality(OwnedRows(rid)) = 3
        /\ runs[other].status = "failed"
        /\ \E k \in OwnedRows(other) : blockRuns[k].status = "failed"

\* C12: when the backend returns a number of values different from the block's
\* declared outputs, execute raises, the block's status is what it was (a block
\* that was not_executed stays so), the store is untouched and the pipeline is not
\* notified.
C12_ArityMismatchRejected ==
    [][\A b \in BlockUuids :
          (/\ Executed
           /\ lastCall'.arg = b
           /\ Len(lastCall'.ret.outputs.items) # Arity(b))
             => /\ lastCall'.ret.raised
                /\ blockObj' = blockObj
                /\ store' = store
                /\ notified' = notified]_vars

\* the loader, declaring one output, got no value: execute raised, the block is
\* not_executed, nothing is stored and nobody was notified
C12_Witness ==
    /\ lastCall.op = "execute" /\ lastCall.arg = "A"
    /\ lastCall.ret.outputs.kind = "tuple" /\ Len(lastCall.ret.outputs.items) = 0
    /\ lastCall.ret.raised
    /\ blockObj["A"].status = "not_executed"
    /\ blockObj["A"].pipeline # None
    /\ DOMAIN store = {}
    /\ notified = << >>

\* C13: when the backend returns a tuple of exactly as many values as the block
\* declares, execute of a block of a pipeline stores the i-th value under the i-th
\* declared name, sets the block's status to executed and hands the block to
\* pipeline.update_block.
C13_OutputsPersistedInOrder ==
    [][\A b \in BlockUuids :
          (/\ Executed
           /\ lastCall'.arg = b
           /\ lastCall'.ret.outputs.kind = "tuple"
           /\ Len(lastCall'.ret.outputs.items) = Arity(b)
           /\ blockObj[b].pipeline # None)
             => /\ ~lastCall'.ret.raised
                /\ \A i \in 1 .. Arity(b) :
                      LET loc == <<"repo", "pipelines", Get(blockObj[b].pipeline),
                                   "variables", b, <<"df">>[i]>> IN
                      /\ loc \in DOMAIN store'
                      /\ store'[loc].data = lastCall'.ret.outputs.items[i]
                /\ \A loc \in DOMAIN store :
                      (loc \in DOMAIN store' /\ store'[loc] # store[loc]) => loc[5] = b
                /\ blockObj'[b].status = "executed"
                /\ \A c \in BlockUuids \ {b} : blockObj'[c] = blockObj[c]
                /\ notified' = Append(notified, b)]_vars

\* the transformer returned one DataFrame: it is stored under df, the block is
\* executed, and the pipeline was notified of the loader and then of the transformer
C13_Witness ==
    /\ lastCall.op = "execute" /\ lastCall.arg = "B" /\ ~lastCall.ret.raised
    /\ <<"repo", "pipelines", "p1", "variables", "B", "df">> \in DOMAIN store
    /\ store[<<"repo", "pipelines", "p1", "variables", "B", "df">>].data = TestFrame
    /\ blockObj["B"].status = "executed"
    /\ notified = <<"A", "B">>

\* C14: the outputs of an execution are keyed by the run's execution partition:
\* executions of one block under two runs with different partitions write
\* different store locations.
C14_OutputsKeyedByPartition ==
    \A e1 \in execLog, e2 \in execLog :
        (e1.block = e2.block /\ e1.partition # e2.partition)
            => e1.locations \cap e2.locations = {}

\* the characters of s are decimal digits
IsDigits(s) == \A i \in 1 .. Len(s) : \E d \in 0 .. 9 : s[i] = Digits[d + 1]

\* the number a string of decimal digits denotes
RECURSIVE Num(_)
Num(s) ==
    IF s = << >> THEN 0
    ELSE 10 * Num(SubSeq(s, 1, Len(s) - 1))
            + (CHOOSE d \in 0 .. 9 : s[Len(s)] = Digits[d + 1])

\* the field of width w at position i of s reads as the number n
Field(s, i, w, n) ==
    /\ Len(s) >= i + w - 1
    /\ IsDigits(SubSeq(s, i, i + w - 1))
    /\ Num(SubSeq(s, i, i + w - 1)) = n

\* C15: the execution partition of a run without execution_date is its schedule id
\* in decimal; with an execution_date it is the schedule id, a '/', and the date as
\* YYYYMMDDTHHMMSS, every field zero-padded to its width.
C15_PartitionFormat ==
    \A rid \in RunIds :
        LET p == execution_partition(rid)
            sid == runs[rid].pipeline_schedule_id
            date == runs[rid].execution_date IN
        IF date = None
        THEN IsDigits(p) /\ Num(p) = sid /\ (Len(p) > 1 => p[1] # "0")
        ELSE \E n \in 2 .. Len(p) :
                /\ p[n] = "/"
                /\ Field(p, 1, n - 1, sid) /\ (n > 2 => p[1] # "0")
                /\ Len(p) = n + 15
                /\ Field(p, n + 1, 4, Get(date).year)
                /\ Field(p, n + 5, 2, Get(date).month)
                /\ Field(p, n + 7, 2, Get(date).day)
                /\ p[n + 9] = "T"
                /\ Field(p, n + 10, 2, Get(date).hour)
                /\ Field(p, n + 12, 2, Get(date).minute)
                /\ Field(p, n + 14, 2, Get(date).second)

\* blocks were executed under partition "1" and under "2/20220131T003015"
C15_Witness ==
    /\ \E e \in execLog : e.rid = 1 /\ e.partition = <<"1">>
    /\ \E e \in execLog :
          /\ e.rid = 2
          /\ e.partition = <<"2", "/", "2", "0", "2", "2", "0", "1", "3", "1", "T",
                             "0", "0", "3", "0", "1", "5">>

\* C16: no two different PipelineRuns have the same execution partition.
C16_PartitionCollisionFree ==
    \A j \in RunIds, k \in RunIds :
        j # k => execution_partition(j) # execution_partition(k)

\* the executor is done with run rid, and ran its blocks with their own code
FullyExecuted(rid) ==
    /\ runs[rid].status \in {"completed", "failed"}
    /\ \A e \in execLog : e.rid = rid => e.own
    /\ \A b \in BlockUuids : blockObj[b].pipeline # None

\* C17: after the full execution of loader -> transformer -> exporter, the three
\* blocks are executed and get of the transformer's df returns what the
\* transformer produced.
C17_EndToEnd ==
    \A rid \in RunIds :
        FullyExecuted(rid) =>
            /\ \A b \in BlockUuids : blockObj[b].status = "executed"
            /\ get_variable(store, "p1", "B", "df", None, FALSE).raised = ""
            /\ get_variable(store, "p1", "B", "df", None, FALSE).value = TestFrame

-----------------------------------------------------------------------------
(* Properties of the variable store *)

\* the latest step was get(key) with sample off
GotWhole == lastCall.op = "get_variable" /\ ~lastCall.sample

C19_LastWriteWins ==
    [][puts'.count = puts.count + 1 =>
          LET key == lastCall'.arg
              loc == KeyLocation(lastCall'.arg) IN
          /\ get_variable(store', key[1], key[2], key[3], None, FALSE)
                = [raised |-> "", value |-> lastCall'.ret]
          /\ DOMAIN store' = DOMAIN store \cup {loc}
          /\ \A k \in DOMAIN store \ {loc} : store'[k] = store[k]
          /\ (/\ loc \in DOMAIN puts.last
              /\ puts.last[loc].data = puts'.last[loc].data
              /\ puts.last[loc].variable_type = puts'.last[loc].variable_type)
                => store' = store]_vars

\* p1/A/df held x, then a DataFrame was put there, and get returned the DataFrame
C19_Witness ==
    /\ GotWhole /\ lastCall.arg = <<"p1", "A", "df">>
    /\ KeyLocation(lastCall.arg) \in DOMAIN puts.last
    /\ puts.last[KeyLocation(lastCall.arg)].before = Obj("x")
    /\ puts.last[KeyLocation(lastCall.arg)].data = TestFrame
    /\ lastCall.ret.value = TestFrame

\* C20: get of a key that was never written raises the not-found error and leaves
\* the store as it was.
C20_GetUnwrittenNotFound ==
    [][(/\ lastCall'.op = "get_variable"
        /\ puts' = puts
        /\ KeyLocation(lastCall'.arg) \notin DOMAIN puts.last)
          => /\ lastCall'.ret.raised = "NotFoundError"
             /\ store' = store]_vars

\* get of p1/B/df raised not-found while p1/A/df is written
C20_Witness ==
    /\ lastCall.op = "get_variable" /\ lastCall.arg = <<"p1", "B", "df">>
    /\ lastCall.ret.raised = "NotFoundError"
    /\ KeyLocation(<<"p1", "A", "df">>) \in DOMAIN store
    /\ KeyLocation(<<"p1", "B", "df">>) \notin DOMAIN store

-----------------------------------------------------------------------------
(* Properties of the store under execution *)

\* C21: a variable that is written stays: get on its key succeeds in every later
\* state, whatever executions, failed executions, completions, failures and
\* cancellations of runs and writes of other variables follow.
C21_NeverDeleted ==
    [][\A loc \in DOMAIN store :
          /\ loc \in DOMAIN store'
          /\ get_variable(store', loc[3], loc[5], loc[6], None, FALSE).raised = ""]_vars

\* the loader's df is stored, and since then the transformer's df was written, an
\* execution failed and a run was cancelled
C21_Witness ==
    /\ KeyLocation(<<"p1", "A", "df">>) \in DOMAIN store
    /\ KeyLocation(<<"p1", "B", "df">>) \in DOMAIN store
    /\ \E e \in execLog : e.raised
    /\ \E rid \in RunIds : runs[rid].status = "cancelled"

\* C23: a write leaves every other key as it was: the keys of other pipelines,
\* blocks and variable names, and the key of the same variable under the partition
\* of another run.
C23_DistinctKeysIndependent ==
    [][\A e \in execLog' \ execLog :
          /\ \A loc \in DOMAIN store \ e.locations : store'[loc] = store[loc]
          /\ \A rid \in RunIds :
                execution_partition(rid) # e.partition =>
                    \A loc \in e.locations :
                        get_variable(store', loc[3], loc[5], loc[6], None, FALSE)
                            = get_variable(store, loc[3], loc[5], loc[6], None, FALSE)]_vars

\* the latest step was listByPipeline
Listed == lastCall.op = "get_variables_by_pipeline"

\* the names the list of block b holds, or none if b is not in the mapping
ListedNames(b) ==
    IF b \in DOMAIN lastCall.ret
    THEN { lastCall.ret[b][i] : i \in 1 .. Len(lastCall.ret[b]) } ELSE {}

\* some put on (pipeline, block, name) has happened
WasPut(pl, b, n) == KeyLocation(<<pl, b, n>>) \in DOMAIN puts.last

\* C24 as claimed: listByPipeline(p) maps a block to a list containing name n iff a
\* put on (p, block, n) has happened, and a pipeline without written variable
\* yields the empty mapping.
C24_ListExact ==
    Listed =>
        /\ \A b \in BlockUuids, n \in VariableUuids :
              n \in ListedNames(b) <=> WasPut(lastCall.arg, b, n)
        /\ (\A b \in BlockUuids, n \in VariableUuids : ~WasPut(lastCall.arg, b, n))
              => DOMAIN lastCall.ret = {}

\* What the listing does return: exactly the blocks with a variable written under
\* p, each mapped to the list of its written names cut at their first '.', in ascending
\* order: a name without '.' is listed iff it was put under (p, block), a name
\* with a '.' appears as its first part; other pipelines never show and a
\* pipeline without written variable yields the empty mapping.
ListCutAtDot ==
    Listed =>
        /\ \A b \in BlockUuids :
              b \in DOMAIN lastCall.ret
                  <=> \E v \in VariableUuids : WasPut(lastCall.arg, b, v)
        /\ \A b \in BlockUuids, n \in VariableUuids :
              n \in ListedNames(b)
                  <=> \E v \in VariableUuids :
                         WasPut(lastCall.arg, b, v) /\ SplitDot(v)[1] = n
        /\ \A b \in BlockUuids, n \in {"df", "df2"} :
              (~WasPut(lastCall.arg, b, "df.v2"))
                  => (n \in ListedNames(b) <=> WasPut(lastCall.arg, b, n))
        /\ \A b \in DOMAIN lastCall.ret :
              /\ Len(lastCall.ret[b])
                    = Cardinality({ v \in VariableUuids : WasPut(lastCall.arg, b, v) })
              /\ \A i \in 1 .. Len(lastCall.ret[b]) - 1 :
                    lastCall.ret[b][i] = "df" \/ lastCall.ret[b][i + 1] = "df2"

\* p1 lists block A with df and df2 while p2 holds a variable too
ListedTwoNames ==
    /\ Listed /\ lastCall.arg = "p1"
    /\ DOMAIN lastCall.ret = {"A"}
    /\ lastCall.ret["A"] = <<"df", "df2">>
    /\ WasPut("p2", "A", "df")

-----------------------------------------------------------------------------
(* Properties of edge updates *)

\* the latest step was a call of Block.update
Updated == lastCall.op = "update"

\* the edges the graph would have if the update of block b took effect
Requested(b, data) ==
    LET E == UpstreamEdges(blockObj)
        up == IF data.upstream_blocks = None THEN { e \in E : e[2] = b }
              ELSE { <<a, b>> : a \in SeqToSet(Get(data.upstream_blocks)) }
        down == IF data.downstream_blocks = None THEN { e \in E : e[1] = b }
                ELSE { <<b, c>> : c \in SeqToSet(Get(data.downstream_blocks)) }
    IN { e \in E : e[1] # b /\ e[2] # b } \cup up \cup down

\* C25 as claimed: an update that adds an edge closing a cycle (a self-edge
\* included) fails with a cycle error and leaves the upstream and downstream
\* lists of every block unchanged, and the edge set is acyclic after every step.
C25_CycleRejected ==
    [][ /\ \A b \in BlockUuids, data \in UpdateData :
              (UpdateBlock(b, data) /\ ~Acyclic(Requested(b, data)))
                  => /\ lastCall'.ret.raised = "CycleError"
                     /\ blockObj' = blockObj
        /\ Acyclic(UpstreamEdges(blockObj')) ]_vars

-----------------------------------------------------------------------------
(* Properties of the execution order *)

\* the position of block b in the order o
PosIn(o, b) == CHOOSE i \in 1 .. Len(o) : o[i] = b

\* the blocks of the order o before position i
Before(o, i) == { o[j] : j \in 1 .. i - 1 }

\* C27: for an acyclic pipeline the execution order holds every block of the
\* pipeline exactly once, no block stands before one of its upstream blocks, and
\* each position holds the earliest declared block among those whose upstream
\* blocks all stand before it.
C27_TopologicalOrder ==
    Acyclic(edges) =>
        LET o == get_executable_blocks IN
        /\ Len(o) = Len(blocks)
        /\ SeqToSet(o) = SeqToSet(blocks)
        /\ \A b \in SeqToSet(blocks) : \A a \in Upstream(b) : PosIn(o, a) < PosIn(o, b)
        /\ \A i \in 1 .. Len(o) :
              \A b \in SeqToSet(blocks) \ Before(o, i) :
                  Upstream(b) \subseteq Before(o, i)
                      => PosIn(blocks, o[i]) <= PosIn(blocks, b)

\* B is declared first and has A upstream, C was added later: A runs first, then
\* B and C are both ready and B goes first
C27_Witness ==
    /\ blocks = <<"B", "A", "C">>
    /\ edges = {<<"A", "B">>}
    /\ get_executable_blocks = <<"A", "B", "C">>

-----------------------------------------------------------------------------
(* Properties of execution by concurrent workers *)

\* the locations of the declared outputs of block u of pipeline p1
OutputLocations(u) ==
    { <<"repo", "pipelines", "p1", "variables", u, output_variables(TypeOf[u])[i]>> :
        i \in 1 .. Len(output_variables(TypeOf[u])) }

\* C28: whenever a worker starts a block, every upstream block of it has a
\* completed block run in the same run and each declared output of that upstream
\* block is in the variable store; no upstream block is still running.
C28_StartsAfterUpstreamPersisted ==
    [][\A k \in 1 .. Len(blockRuns) :
          (blockRuns[k].status = "initial" /\ blockRuns'[k].status = "running")
             => \A u \in BlockUuids :
                   <<u, blockRuns[k].block_uuid>> \in edges
                      => /\ blockRuns[RowOf(blockRuns[k].pipeline_run_id, u)].status
                               = "completed"
                         /\ blockObj[u].status = "executed"
                         /\ OutputLocations(u) \subseteq DOMAIN store]_vars

\* both workers are busy, with B and with C, after the loader A before them
\* completed and its DataFrame is in the store
C28_Witness ==
    /\ edges = Fork
    /\ blockRuns[1].status = "completed"
    /\ blockRuns[2].status = "running" /\ blockRuns[3].status = "running"
    /\ \A p \in Procs : proc[p].pc = "executing"
    /\ <<"repo", "pipelines", "p1", "variables", "A", "df">> \in DOMAIN store

-----------------------------------------------------------------------------
(* Properties of failure and cancellation *)

TerminalStatuses == {"completed", "failed", "cancelled"}

\* C29: a block run becomes failed only by an execution of its block that raised,
\* and that step changes no other block run, no run, no block and nothing in the
\* variable store; a block run that is completed, failed or cancelled keeps its
\* row and its status in every later step.
C29_FailureIsLocal ==
    [][ /\ \A k \in 1 .. Len(blockRuns) :
              (blockRuns[k].status # "failed" /\ blockRuns'[k].status = "failed")
                 => /\ lastCall'.op = "execute"
                    /\ lastCall'.ret.raised
                    /\ lastCall'.arg = blockRuns[k].block_uuid
                    /\ \A j \in 1 .. Len(blockRuns) : j # k => blockRuns'[j] = blockRuns[j]
                    /\ store' = store
                    /\ blockObj' = blockObj
                    /\ runs' = runs
        /\ Len(blockRuns') = Len(blockRuns)
        /\ \A k \in 1 .. Len(blockRuns) :
              blockRuns[k].status \in TerminalStatuses => blockRuns'[k] = blockRuns[k]
      ]_vars

\* the transformer B of run 1 failed after the loader A of the run completed: A's
\* block run is still completed and its DataFrame is still in the store
C29_Witness ==
    /\ lastCall.op = "execute" /\ lastCall.arg = "B" /\ lastCall.ret.raised
    /\ lastCall.ret.rid = 1
    /\ blockRuns[RowOf(1, "B")].status = "failed"
    /\ blockRuns[RowOf(1, "A")].status = "completed"
    /\ blockRuns[RowOf(1, "C")].status = "initial"
    /\ <<"repo", "pipelines", "p1", "variables", "A", "df">> \in DOMAIN store
    /\ store[<<"repo", "pipelines", "p1", "variables", "A", "df">>].data = TestFrame

\* C30: the step that cancels a run sets each of its block runs that is not
\* completed, failed or cancelled to cancelled and changes no other block run; once
\* a run is cancelled none of its block runs changes and none of its blocks is
\* executed.
C30_CancelStopsRun ==
    [][ /\ \A rid \in 1 .. Len(runs) :
              (runs[rid].status # "cancelled" /\ runs'[rid].status = "cancelled")
                 => \A k \in 1 .. Len(blockRuns) :
                       IF blockRuns[k].pipeline_run_id = rid
                          /\ blockRuns[k].status \notin TerminalStatuses
                       THEN blockRuns'[k] = [blockRuns[k] EXCEPT !.status = "cancelled"]
                       ELSE blockRuns'[k] = blockRuns[k]
        /\ \A k \in 1 .. Len(blockRuns) :
              runs[blockRuns[k].pipeline_run_id].status = "cancelled"
                 => blockRuns'[k] = blockRuns[k]
        /\ \A e \in execLog' \ execLog : runs[e.rid].status # "cancelled"
      ]_vars

\* run 1 was cancelled after its loader completed: the loader's block run is still
\* completed, the other two are cancelled, and run 2 has gone on since
C30_Witness ==
    /\ runs[1].status = "cancelled"
    /\ blockRuns[RowOf(1, "A")].status = "completed"
    /\ blockRuns[RowOf(1, "B")].status = "cancelled"
    /\ blockRuns[RowOf(1, "C")].status = "cancelled"
    /\ lastCall.op = "execute" /\ lastCall.ret.rid = 2

-----------------------------------------------------------------------------
(* Properties of a run under fair scheduling *)

\* no block run of run 1 has failed and the run is not cancelled
NoFailure ==
    /\ \A k \in 1 .. Len(blockRuns) : blockRuns[k].status \notin {"failed", "cancelled"}
    /\ runs[1].status \notin {"failed", "cancelled"}

\* every block run of run 1 is completed and so is the run
RunDone ==
    /\ \A k \in 1 .. Len(blockRuns) : blockRuns[k].status = "completed"
    /\ runs[1].status = "completed"

\* C31: if no block of the run ever fails and the run is never cancelled, then
\* under fair scheduling every block run becomes completed and after that the run
\* becomes completed, and stays so.
C31_EventuallyCompleted == ([]NoFailure) => <>[]RunDone

\* the run was closed as completed after the last of its blocks was executed
C31_Witness ==
    /\ RunDone
    /\ \A b \in BlockUuids : blockObj[b].status = "executed"
    /\ \A p \in Procs : proc[p] = Idle

-----------------------------------------------------------------------------
(* Properties of suspended blocks *)

\* the workers that are suspended in the execute_block of a block
Suspended == { p \in Procs : proc[p].pc = "executing" }

-----------------------------------------------------------------------------
(* Properties of the block types *)

\* the arity a block type stands for
TypeArity(t) == IF t \in {"data_loader", "transformer"} THEN 1 ELSE 0

\* the block the latest call built or executed
Built == IF lastCall.op = "execute_built" THEN lastCall.ret.block ELSE lastCall.ret

\* C33: the classes of data_exporter and scratchpad declare no output and those
\* of data_loader and transformer declare one; a block built by get_block with
\* any tag is of the class of its tag, or a plain Block for a tag that is no block
\* type, so it declares as many outputs as its tag stands for, and execute raises
\* on it exactly when the outputs are not that many.
C33_DispatchArity ==
    /\ \A t \in BlockType :
          Len(class_output_variables(BLOCK_TYPE_TO_CLASS[t])) = TypeArity(t)
    /\ (\/ lastCall.op = "get_block"
        \/ lastCall.op = "execute_built" /\ lastCall.ret.built = "get_block")
          => /\ Len(class_output_variables(Built.class)) = TypeArity(Built.type)
             /\ class_output_variables(Built.class) = output_variables(Built.type)
             /\ Built.type \notin BlockType => Built.class = "Block"
    /\ (lastCall.op = "execute_built" /\ lastCall.ret.built = "get_block")
          => (lastCall.ret.raised
                 <=> PyLen(lastCall.ret.outputs) # TypeArity(Built.type))

\* a loader built by get_block was executed with one value and did not raise
C33_Witness ==
    /\ lastCall.op = "execute_built" /\ lastCall.ret.built = "get_block"
    /\ Built.type = "data_loader" /\ Built.class = "DataLoaderBlock"
    /\ lastCall.ret.outputs = Tuple(<<TestFrame>>)
    /\ ~lastCall.ret.raised

-----------------------------------------------------------------------------
(* Properties of the block status *)

\* C34: in every state a block of a pipeline whose status is executed has each of
\* its declared output variables in the variable store, and a block whose
\* execution raised, for the arity of its outputs or in the store, has the
\* status not_executed and none of its outputs stored.
C34_ExecutedMeansStored ==
    /\ \A b \in BlockUuids :
          (blockObj[b].pipeline # None /\ blockObj[b].status = "executed")
             => OutputLocations(b) \subseteq DOMAIN store
    /\ (lastCall.op = "execute" /\ lastCall.ret.raised)
          => /\ blockObj[lastCall.arg].status = "not_executed"
             /\ OutputLocations(lastCall.arg) \cap DOMAIN store = {}

\* the loader A is executed with its DataFrame stored, and the store failed the
\* transformer B, which returned one value: B is not executed and has no output
C34_Witness ==
    /\ blockObj["A"].status = "executed"
    /\ <<"repo", "pipelines", "p1", "variables", "A", "df">> \in DOMAIN store
    /\ lastCall.op = "execute" /\ lastCall.arg = "B" /\ lastCall.ret.raised
    /\ lastCall.ret.outputs = Tuple(<<TestFrame>>)
    /\ blockObj["B"].status = "not_executed"
    /\ <<"repo", "pipelines", "p1", "variables", "B", "df">> \notin DOMAIN store

-----------------------------------------------------------------------------
(* Properties of a run without block runs *)

\* C35: all_blocks_completed is true for every run that owns no block run: for
\* a run whose pipeline had no executable block, and for a run that
\* PipelineRun.create has committed and whose first block run it has not created
\* yet.
C35_NoBlockRunsCountsAsCompleted ==
    \A rid \in 1 .. Len(runs) :
        OwnedRows(rid) = {} => all_blocks_completed(rid)

\* PipelineRun.create has committed a run for a pipeline with blocks and none of
\* its block runs yet: asked now, the run has all blocks completed
C35_Witness ==
    \E rid \in 1 .. Len(runs) :
        /\ Creating(rid)
        /\ blocks # << >>
        /\ OwnedRows(rid) = {}
        /\ all_blocks_completed(rid)

\* a run was created for a pipeline without blocks: it owns no block run, create
\* has returned, and it has all blocks completed
EmptyPipelineRun ==
    \E rid \in 1 .. Len(runs) :
        /\ ~Creating(rid)
        /\ blocks = << >>
        /\ OwnedRows(rid) = {}
        /\ all_blocks_completed(rid)

-----------------------------------------------------------------------------
(* Properties of the trigger decision under status changes *)

\* the runs of schedule s that carry its current execution date
CurrentRuns(s) ==
    { k \in 1 .. Len(runs) :
        /\ runs[k].pipeline_schedule_id = s
        /\ runs[k].execution_date = current_execution_date(s) }

\* C36: in every state of an interval in which a run of a recurring schedule with
\* the current execution date exists, should_schedule is false, whatever the
\* status of that run; for '@once' it is false in every state in which the
\* schedule has a run, whatever its status.
C36_DecisionIgnoresStatus ==
    \A s \in SchedIds :
        /\ (sched[s].schedule_interval \in Recurring /\ CurrentRuns(s) # {})
              => ~should_schedule(s)
        /\ (sched[s].schedule_interval = "@once" /\ Len(pipeline_runs(s)) > 0)
              => ~should_schedule(s)

\* the run of the current interval of an active recurring schedule has failed or
\* was cancelled, and the polling loop was answered False
C36_Witness ==
    /\ lastCall.op = "should_schedule" /\ lastCall.arg = 1 /\ ~lastCall.ret
    /\ sched[1].status = "active"
    /\ sched[1].schedule_interval \in Recurring
    /\ CurrentRuns(1) # {}
    /\ \A k \in CurrentRuns(1) : runs[k].status \in {"failed", "cancelled"}

-----------------------------------------------------------------------------
(* Properties of the trigger decision as a query *)

\* C37: a call of should_schedule creates no run and no block run and changes no
\* field of a schedule, a run or a block run, and when it follows another call for
\* the same schedule, with no time passed and no run created in between, it
\* returns what that call returned.
C37_ShouldScheduleIsPure ==
    [][lastCall'.op = "should_schedule"
          => /\ runs' = runs
             /\ blockRuns' = blockRuns
             /\ sched' = sched
             /\ now' = now
             /\ (lastCall.op = "should_schedule" /\ lastCall.arg = lastCall'.arg)
                   => lastCall'.ret = lastCall.ret]_vars

\* two callers have asked for schedule 1 one after the other and no run was
\* created in between: both were answered True
C37_Witness ==
    /\ lastCall.op = "should_schedule" /\ lastCall.arg = 1 /\ lastCall.ret
    /\ runs = << >>
    /\ Cardinality({ q \in Procs : proc[q].pc = "create" /\ proc[q].sid = 1 }) = 2

-----------------------------------------------------------------------------
(* Properties of the truncation *)

\* a is not later than b
DtLeq(a, b) == ~DtLess(b, a)

\* C38: for each of the four recurring intervals the execution date of a time
\* exists, truncating it again gives the same date, it is not later than the
\* time, and a later time never has an earlier execution date; for an interval
\* that is none of the supported ones there is no execution date and
\* should_schedule is false at every time.
C38_TruncationLaws ==
    /\ lastCall.op = "current_execution_date"
          => LET iv == lastCall.arg[1]
                 t1 == lastCall.arg[2]
                 t2 == lastCall.arg[3]
                 r == lastCall.ret IN
             IF iv \in Recurring
             THEN /\ r.at1 # None /\ r.at2 # None
                  /\ r.again = r.at1
                  /\ DtLeq(Get(r.at1), t1)
                  /\ DtLeq(t1, t2) => DtLeq(Get(r.at1), Get(r.at2))
             ELSE r.at1 = None /\ r.at2 = None
    /\ \A s \in SchedIds :
          sched[s].schedule_interval \notin Recurring \cup {"@once"}
             => current_execution_date(s) = None /\ ~should_schedule(s)

\* the weekly execution date of a Monday afternoon is that Monday at midnight, a
\* day after the Sunday the other time lies on, whose execution date is six days
\* before it
C38_Witness ==
    /\ lastCall.op = "current_execution_date"
    /\ lastCall.arg[1] = "@weekly"
    /\ lastCall.arg[2] = ClockAt(0, 2) /\ lastCall.arg[3] = ClockAt(1, 3)
    /\ Weekday(lastCall.arg[3]) = 0
    /\ lastCall.ret.at2 = Some(ClockAt(1, 1))
    /\ DtLess(Get(lastCall.ret.at1), Get(lastCall.ret.at2))
    /\ lastCall.ret.again = lastCall.ret.at1

-----------------------------------------------------------------------------
(* Properties of the port search *)

\* the ports from p to p + 100 of the search in progress
SearchRange == lastCall.arg.port .. lastCall.arg.port + PortSpan

\* C39 as claimed: the search listens on the first free port, which lies in
\* [p, p + 100], and it raises when, and only when, every port of that range is
\* in use.
C39_PortWithinRange ==
    lastCall.op = "main" =>
        /\ lastCall.ret.pc = "listening"
              => /\ ~is_port_in_use(lastCall.arg, lastCall.ret.port)
                 /\ \A q \in lastCall.arg.port .. lastCall.ret.port - 1 :
                       is_port_in_use(lastCall.arg, q)
                 /\ lastCall.ret.port \in SearchRange
                 /\ \E q \in SearchRange : ~is_port_in_use(lastCall.arg, q)
        /\ lastCall.ret.pc = "raised"
              => \A q \in SearchRange : is_port_in_use(lastCall.arg, q)

\* What the search does: it ends after at most 103 probes, on the first free port
\* if that is one of p .. p + 101, and with the error if all of those 102 ports
\* are in use.
PortWithinRangeAndOne ==
    lastCall.op = "main" =>
        /\ lastCall.ret.port \in lastCall.arg.port .. lastCall.arg.port + PortSpan + 1
        /\ lastCall.ret.pc = "listening"
              => /\ ~is_port_in_use(lastCall.arg, lastCall.ret.port)
                 /\ \A q \in lastCall.arg.port .. lastCall.ret.port - 1 :
                       is_port_in_use(lastCall.arg, q)
        /\ lastCall.ret.pc = "raised"
              => \A q \in lastCall.arg.port .. lastCall.arg.port + PortSpan + 1 :
                    is_port_in_use(lastCall.arg, q)

\* every port from p to p + 100 is in use and the server listens on p + 101
ListensBeyondRange ==
    /\ lastCall.op = "main" /\ lastCall.ret.pc = "listening"
    /\ lastCall.arg.taken = PortSpan + 1
    /\ lastCall.ret.port = lastCall.arg.port + PortSpan + 1

\* the search gave up
SearchRaised == lastCall.op = "main" /\ lastCall.ret.pc = "raised"

====
